---- MODULE Spec2Model ----
(***************************************************************************)
(* Model of the BIM core of flutter_bim: the multi-model registry          *)
(* (bim/model_registry.rs), the STEP grammar parser (bim/ifc_parser.rs)    *)
(* and the API functions that drive them (api.rs).                         *)
(***************************************************************************)
EXTENDS Integers, Sequences, FiniteSets, TLC

VARIABLES
    models,         \* ModelRegistry.models : ModelId -> RegisteredModel
    primary_model,  \* ModelRegistry.primary_model : Option<ModelId>
    next_id,        \* ModelRegistry.next_id
    op,             \* name of the last operation called
    args,           \* the arguments the last operation was called with
    ret,            \* what the last operation returned
    iter,           \* get_combined_bounds: the loop over models.values()
    input,          \* what was handed to the parser: a text, or a file as its parts
    output,         \* result of the parser under test
    statics,        \* api.rs: the values of the statics other than MODEL_REGISTRY
    threads         \* the API call each thread is in: its position and the mutexes it holds

vars == <<models, primary_model, next_id, op, args, ret, iter, input, output, statics, threads>>
registry == <<models, primary_model, next_id>>

(***************************************************************************)
(* Bounds of the model.                                                    *)
(***************************************************************************)
\* add_model is exercised while next_id <= MaxNextId
MaxNextId == 3
\* a new key is inserted only while fewer than MaxModels models are registered
MaxModels == 2

(***************************************************************************)
(* Option<T>: None is the empty tuple, Some(x) the one-element tuple.      *)
(***************************************************************************)
None == <<>>
Some(x) == <<x>>

(***************************************************************************)
(* Inputs of the registry operations.                                      *)
(***************************************************************************)
\* ids a caller passes to add_model_with_id / remove_model / set_...
CallerIds == {"model_1", "legacy"}

\* ModelId of the n-th generated id: format!("model_{}", n)
FormatId(n) == "model_" \o ToString(n)

GeneratedIds == {FormatId(n) : n \in 1..MaxNextId}
Ids == GeneratedIds \cup CallerIds

\* BimModel::new(): the empty model
BimModel_new == [walls |-> {}, slabs |-> {}, doors |-> {}, element_count |-> 0]

\* a model holding one wall
OneWallModel == [walls |-> {1}, slabs |-> {}, doors |-> {}, element_count |-> 1]

\* (model, name, file_path) triples handed to add_model / add_model_with_id
AddInputs ==
    { [model |-> BimModel_new, name |-> "Test Model", file_path |-> None],
      [model |-> OneWallModel, name |-> "Model 2", file_path |-> Some("site.ifc")] }

identity_matrix ==
    << 1, 0, 0, 0,
       0, 1, 0, 0,
       0, 0, 1, 0,
       0, 0, 0, 1 >>

\* a translation by (5, 0, 0), column-major
TranslateX ==
    << 1, 0, 0, 0,
       0, 1, 0, 0,
       0, 0, 1, 0,
       5, 0, 0, 1 >>

Transforms == {identity_matrix, TranslateX}

(***************************************************************************)
(* RegisteredModel and the HashMap primitives.                             *)
(***************************************************************************)
\* variant: a new entry caches the unit box as its bounds
RegisteredModel_with_bounds(model, name, file_path) ==
    [ model     |-> model,
      name      |-> name,
      file_path |-> file_path,
      visible   |-> TRUE,
      transform |-> identity_matrix,
      bounds    |-> Some([min |-> <<0, 0, 0>>, max |-> <<1, 1, 1>>]) ]

RegisteredModel_new(model, name, file_path) ==
    [ model     |-> model,
      name      |-> name,
      file_path |-> file_path,
      visible   |-> TRUE,
      transform |-> identity_matrix,
      bounds    |-> None ]

\* variant: an occupied entry keeps its old value (entry().or_insert)
InsertIfVacant(m, k, v) == [x \in (DOMAIN m) \cup {k} |-> IF x \in DOMAIN m THEN m[x] ELSE v]

\* HashMap::insert
Insert(m, k, v) == [x \in (DOMAIN m) \cup {k} |-> IF x = k THEN v ELSE m[x]]

\* HashMap::remove
Remove(m, k) == [x \in (DOMAIN m) \ {k} |-> m[x]]

EmptyMap == [x \in {} |-> None]

model_count == Cardinality(DOMAIN models)
is_empty == DOMAIN models = {}
has_model(id) == id \in DOMAIN models
is_model_visible(id) == IF id \in DOMAIN models THEN Some(models[id].visible) ELSE None
list_models == DOMAIN models
list_visible_models == {id \in DOMAIN models : models[id].visible}
iter_visible == {id \in DOMAIN models : models[id].visible}
get_primary_model_id == primary_model

(***************************************************************************)
(* ModelRegistry operations: each relates the registry fields before and   *)
(* after the call to the arguments and to the returned value r.            *)
(***************************************************************************)
\* fn generate_id(&mut self): the id and the counter after the call
generate_id == [id |-> FormatId(next_id), next_id |-> next_id + 1]

ModelRegistry_add_model(model, name, file_path, r) ==
    LET g == generate_id
        registered == RegisteredModel_new(model, name, file_path)
    IN  /\ next_id <= MaxNextId
        /\ g.id \in DOMAIN models \/ model_count < MaxModels
        /\ next_id' = g.next_id
        /\ primary_model' = IF is_empty THEN Some(g.id) ELSE primary_model
        /\ models' = Insert(models, g.id, registered)
        /\ r = g.id

\* variant: makes the inserted model primary without testing is_empty()
add_model_with_id_always_primary(id, model, name, file_path, r) ==
    LET registered == RegisteredModel_new(model, name, file_path)
    IN  /\ id \in DOMAIN models \/ model_count < MaxModels
        /\ primary_model' = Some(id)
        /\ models' = Insert(models, id, registered)
        /\ next_id' = next_id
        /\ r = id

ModelRegistry_add_model_with_id(id, model, name, file_path, r) ==
    LET registered == RegisteredModel_new(model, name, file_path)
    IN  /\ id \in DOMAIN models \/ model_count < MaxModels
        /\ primary_model' = IF is_empty THEN Some(id) ELSE primary_model
        /\ models' = Insert(models, id, registered)
        /\ next_id' = next_id
        /\ r = id

\* variant: always answers None
keys_next_none(m, p) == p = None

\* self.models.keys().next().cloned(): any key of the map, None if it is empty
keys_next(m, p) == IF DOMAIN m = {} THEN p = None ELSE \E k \in DOMAIN m : p = Some(k)

\* variant: the primary is not reassigned when the primary model is removed
remove_model_keeps_primary(id, r) ==
    /\ models' = Remove(models, id)
    /\ primary_model' = primary_model
    /\ next_id' = next_id
    /\ r = IF id \in DOMAIN models THEN "Some" ELSE "None"

ModelRegistry_remove_model(id, r) ==
    /\ models' = Remove(models, id)
    /\ IF primary_model = Some(id)
          THEN keys_next(models', primary_model')
          ELSE primary_model' = primary_model
    /\ next_id' = next_id
    /\ r = IF id \in DOMAIN models THEN "Some" ELSE "None"

\* variant: no contains_key test
set_primary_model_unchecked(id, r) ==
    /\ primary_model' = Some(id) /\ r = "Ok"
    /\ UNCHANGED <<models, next_id>>

ModelRegistry_set_primary_model(id, r) ==
    /\ IF id \in DOMAIN models
          THEN primary_model' = Some(id) /\ r = "Ok"
          ELSE primary_model' = primary_model /\ r = "Err"
    /\ UNCHANGED <<models, next_id>>

\* variant: shows the model whatever the flag passed
set_model_visible_ignores_flag(id, visible, r) ==
    /\ IF id \in DOMAIN models
          THEN /\ models' = [models EXCEPT ![id].visible = TRUE]
               /\ r = "Ok"
          ELSE /\ models' = models
               /\ r = "Err"
    /\ UNCHANGED <<primary_model, next_id>>

ModelRegistry_set_model_visible(id, visible, r) ==
    /\ IF id \in DOMAIN models
          THEN /\ models' = [models EXCEPT ![id].visible = visible]
               /\ r = "Ok"
          ELSE /\ models' = models
               /\ r = "Err"
    /\ UNCHANGED <<primary_model, next_id>>

ModelRegistry_set_model_transform(id, transform, r) ==
    /\ IF id \in DOMAIN models
          THEN /\ models' = [models EXCEPT ![id].transform = transform]
               /\ r = "Ok"
          ELSE /\ models' = models
               /\ r = "Err"
    /\ UNCHANGED <<primary_model, next_id>>

\* variant: clear also resets the id counter
clear_resets_counter ==
    /\ models' = EmptyMap
    /\ primary_model' = None
    /\ next_id' = 1

ModelRegistry_clear ==
    /\ models' = EmptyMap
    /\ primary_model' = None
    /\ next_id' = next_id

(***************************************************************************)
(* Specification of the registry: any sequence of its operations on        *)
(* ModelRegistry::new().                                                   *)
(***************************************************************************)
ModelRegistry_new ==
    /\ models = EmptyMap
    /\ primary_model = None
    /\ next_id = 1

\* Result<(), String> of the setters
Results == {"Ok", "Err"}

\* no query and no parse is in progress
IterIdle == [pc |-> "idle", pending |-> {}, combined |-> None]
\* the statics as the program starts: nothing hidden, nothing selected, no
\* renderer, no measurement
StaticsNew ==
    [ VISIBILITY         |-> {},
      SELECTED_ELEMENT   |-> None,
      RENDERER           |-> None,
      MEASUREMENT_POINTS |-> <<>>,
      MEASUREMENT_TYPE   |-> None ]

\* no API call is running on any thread
NoThreads == <<>>

ApiIdle == statics = StaticsNew /\ threads = NoThreads

Idle == iter = IterIdle /\ input = <<>> /\ output = None /\ ApiIdle

Init ==
    /\ ModelRegistry_new
    /\ op = "new" /\ args = <<>> /\ ret = "()"
    /\ Idle

add_model ==
    /\ \E a \in AddInputs :
          /\ \E r \in Ids : ModelRegistry_add_model(a.model, a.name, a.file_path, r) /\ ret' = r
          /\ args' = <<a.model, a.name, a.file_path>>
    /\ op' = "add_model"
    /\ UNCHANGED <<iter, input, output, statics, threads>>

add_model_with_id ==
    /\ \E id \in Ids, a \in AddInputs :
          /\ \E r \in Ids :
                ModelRegistry_add_model_with_id(id, a.model, a.name, a.file_path, r) /\ ret' = r
          /\ args' = <<id, a.model, a.name, a.file_path>>
    /\ op' = "add_model_with_id"
    /\ UNCHANGED <<iter, input, output, statics, threads>>

remove_model ==
    /\ \E id \in Ids, r \in {"Some", "None"} :
          ModelRegistry_remove_model(id, r) /\ ret' = r /\ args' = <<id>>
    /\ op' = "remove_model"
    /\ UNCHANGED <<iter, input, output, statics, threads>>

set_primary_model ==
    /\ \E id \in Ids, r \in Results :
          ModelRegistry_set_primary_model(id, r) /\ ret' = r /\ args' = <<id>>
    /\ op' = "set_primary_model"
    /\ UNCHANGED <<iter, input, output, statics, threads>>

set_model_visible ==
    /\ \E id \in Ids, v \in BOOLEAN, r \in Results :
          ModelRegistry_set_model_visible(id, v, r) /\ ret' = r /\ args' = <<id, v>>
    /\ op' = "set_model_visible"
    /\ UNCHANGED <<iter, input, output, statics, threads>>

set_model_transform ==
    /\ \E id \in Ids, t \in Transforms, r \in Results :
          ModelRegistry_set_model_transform(id, t, r) /\ ret' = r /\ args' = <<id, t>>
    /\ op' = "set_model_transform"
    /\ UNCHANGED <<iter, input, output, statics, threads>>

clear ==
    /\ ModelRegistry_clear
    /\ ret' = "()"
    /\ args' = <<>>
    /\ op' = "clear"
    /\ UNCHANGED <<iter, input, output, statics, threads>>

Next ==
    \/ add_model
    \/ add_model_with_id
    \/ remove_model
    \/ set_primary_model
    \/ set_model_visible
    \/ set_model_transform
    \/ clear

Spec == Init /\ [][Next]_vars

(***************************************************************************)
(* Properties of the registry.                                             *)
(***************************************************************************)
AddOps == {"add_model", "add_model_with_id"}

\* the id under which the last add inserted its model
AddedId(o, a, r) == IF o = "add_model" THEN r ELSE a[1]

\* C1 in every reachable state primary_model is Some(id) exactly when the
\* model map is non-empty, and that id is a key of the map
PrimaryNeverDangling ==
    /\ (primary_model # None) <=> (DOMAIN models # {})
    /\ primary_model # None => primary_model[1] \in DOMAIN models

\* C1 witness: the primary was removed while another model remained
PrimaryReassignedState ==
    /\ op = "remove_model" /\ ret = "Some"
    /\ DOMAIN models # {}
    /\ primary_model # None
    /\ primary_model[1] \in DOMAIN models

\* C2 every add_model returns an id that was not a key before the call, so
\* model_count grows by exactly one and no registered model is replaced
AddModelReturnsFreshId ==
    [][op' = "add_model" =>
          /\ ret' \notin DOMAIN models
          /\ Cardinality(DOMAIN models') = model_count + 1
          /\ \A k \in DOMAIN models : models'[k] = models[k]]_vars

\* C3 remove_model(id): removing the primary leaves a remaining key primary
\* (None when the registry became empty); removing any other id, present or
\* absent, leaves the primary unchanged; add(A), add(B), remove(A) leaves B
\* primary and remove(B) then leaves an empty registry with primary None
RemoveReassignsPrimary ==
    [][op' = "remove_model" =>
          /\ IF primary_model = Some(args'[1])
                THEN IF DOMAIN models' = {}
                        THEN primary_model' = None
                        ELSE /\ primary_model' # None
                             /\ primary_model'[1] \in DOMAIN models'
                ELSE primary_model' = primary_model
          /\ ( /\ DOMAIN models = {"model_1", "model_2"}
               /\ primary_model = Some("model_1")
               /\ args'[1] = "model_1" )
             => primary_model' = Some("model_2")
          /\ ( /\ DOMAIN models = {"model_2"}
               /\ args'[1] = "model_2" )
             => (primary_model' = None /\ models' = EmptyMap)]_vars

\* C3 witness: model_1 was removed and model_2, the only one left, is primary
RemovedFirstOfTwoState ==
    /\ op = "remove_model" /\ args = <<"model_1">> /\ ret = "Some"
    /\ DOMAIN models = {"model_2"}
    /\ primary_model = Some("model_2")

\* C4 add_model / add_model_with_id make the inserted id primary iff the
\* registry was empty before the call and leave the primary unchanged
\* otherwise; an existing primary changes only by set_primary_model, by
\* removal of the primary, or by clear
AddSetsPrimaryOnlyWhenEmpty ==
    [][ /\ op' \in AddOps =>
              IF DOMAIN models = {}
                 THEN primary_model' = Some(AddedId(op', args', ret'))
                 ELSE primary_model' = primary_model
        /\ (primary_model # None /\ primary_model' # primary_model) =>
              \/ op' = "set_primary_model"
              \/ op' = "clear"
              \/ op' = "remove_model" /\ primary_model = Some(args'[1]) ]_vars

\* C4 witness: a model was added to a non-empty registry and is not primary
AddedSecondModelState ==
    /\ op = "add_model_with_id"
    /\ model_count = 2
    /\ primary_model # None
    /\ primary_model # Some(args[1])

\* C5 set_primary_model, set_model_visible and set_model_transform with an
\* absent id return Err and change nothing; remove_model with an absent id
\* returns None and changes nothing; set_primary_model with a present id
\* succeeds whatever that model's visible flag
UnknownIdChangesNothing ==
    [][ /\ ( /\ op' \in {"set_primary_model", "set_model_visible", "set_model_transform"}
             /\ args'[1] \notin DOMAIN models )
           => (ret' = "Err" /\ UNCHANGED registry)
        /\ (op' = "remove_model" /\ args'[1] \notin DOMAIN models)
           => (ret' = "None" /\ UNCHANGED registry)
        /\ (op' = "set_primary_model" /\ args'[1] \in DOMAIN models)
           => (ret' = "Ok" /\ primary_model' = Some(args'[1])) ]_vars

\* C5 witness: a setter was refused for an id that is not registered while
\* other models are
SetterRefusedState ==
    /\ op \in {"set_primary_model", "set_model_visible", "set_model_transform"}
    /\ ret = "Err"
    /\ args[1] \notin DOMAIN models
    /\ DOMAIN models # {}

\* visible flags of the models other than id are the same before and after
OthersKeepVisible(id) ==
    \A k \in (DOMAIN models \cap DOMAIN models') \ {id} :
        models'[k].visible = models[k].visible

\* C7 a newly added model is visible; list_visible_models / iter_visible yield
\* exactly the ids whose flag is the last value written by set_model_visible
\* (true if never written since insertion); set_model_visible changes only
\* the visible flag of that one model
VisibleIsLastWritten ==
    [][ /\ op' \in AddOps =>
              /\ AddedId(op', args', ret') \in list_visible_models'
              /\ AddedId(op', args', ret') \in iter_visible'
              /\ OthersKeepVisible(AddedId(op', args', ret'))
        /\ (op' = "set_model_visible" /\ ret' = "Ok") =>
              /\ (args'[1] \in list_visible_models') <=> args'[2]
              /\ (args'[1] \in iter_visible') <=> args'[2]
              /\ models' = [models EXCEPT ![args'[1]].visible = args'[2]]
        /\ op' = "set_model_visible" =>
              /\ primary_model' = primary_model
              /\ DOMAIN models' = DOMAIN models
              /\ next_id' = next_id
              /\ OthersKeepVisible(args'[1])
        /\ op' \notin AddOps \cup {"set_model_visible"} => OthersKeepVisible("") ]_vars

\* C7 witness: a model was hidden while another one stays visible
HidOneOfTwoState ==
    /\ op = "set_model_visible" /\ ret = "Ok" /\ args[2] = FALSE
    /\ model_count = 2
    /\ Cardinality(list_visible_models) = 1
    /\ args[1] \notin list_visible_models

\* C8 add_model_with_id with a registered id replaces that entry: model_count
\* is unchanged, the entry holds the new model, name and file_path, its
\* visible flag, transform and bounds are reset to true, identity and None,
\* and no other entry is affected
AddWithIdOverwrites ==
    [][(op' = "add_model_with_id" /\ args'[1] \in DOMAIN models) =>
          /\ ret' = args'[1]
          /\ Cardinality(DOMAIN models') = model_count
          /\ DOMAIN models' = DOMAIN models
          /\ models'[args'[1]] =
                [ model     |-> args'[2],
                  name      |-> args'[3],
                  file_path |-> args'[4],
                  visible   |-> TRUE,
                  transform |-> identity_matrix,
                  bounds    |-> None ]
          /\ \A k \in DOMAIN models \ {args'[1]} : models'[k] = models[k]]_vars

\* C8 witness: the id just added is the primary of a registry of two models,
\* so it was registered before the call
OverwrotePrimaryState ==
    /\ op = "add_model_with_id"
    /\ model_count = 2
    /\ primary_model = Some(args[1])
    /\ models[args[1]].visible /\ models[args[1]].transform = identity_matrix

(***************************************************************************)
(* BoundingBox (bim/geometry.rs) and ModelRegistry::get_combined_bounds.   *)
(* Coordinates are integers; f32::min / f32::max are the numeric min/max.  *)
(***************************************************************************)
f32_min(a, b) == IF a <= b THEN a ELSE b
f32_max(a, b) == IF a >= b THEN a ELSE b

BoundingBox_from_min_max(min, max) == [min |-> min, max |-> max]

\* variant: the union keeps the maximum corner of self
union_keeps_self_max(self, other) ==
    [ min |-> << f32_min(self.min[1], other.min[1]),
                 f32_min(self.min[2], other.min[2]),
                 f32_min(self.min[3], other.min[3]) >>,
      max |-> self.max ]

BoundingBox_union(self, other) ==
    [ min |-> << f32_min(self.min[1], other.min[1]),
                 f32_min(self.min[2], other.min[2]),
                 f32_min(self.min[3], other.min[3]) >>,
      max |-> << f32_max(self.max[1], other.max[1]),
                 f32_max(self.max[2], other.max[2]),
                 f32_max(self.max[3], other.max[3]) >> ]

\* the boxes cached on the models of the bounds specification
Box01 == BoundingBox_from_min_max(<<0, 0, 0>>, <<1, 1, 1>>)
Box23 == BoundingBox_from_min_max(<<2, 2, 2>>, <<3, 3, 3>>)
BoxSkew == BoundingBox_from_min_max(<<-1, 2, 0>>, <<4, 2, 1>>)
CachedBounds == {None, Some(Box01), Some(Box23), Some(BoxSkew)}

\* one pass of the loop body of get_combined_bounds over the entry model
combined_bounds_step(combined, model) ==
    IF ~model.visible
       THEN combined
       ELSE IF model.bounds # None
               THEN IF combined = None
                       THEN Some(model.bounds[1])
                       ELSE Some(BoundingBox_union(combined[1], model.bounds[1]))
               ELSE combined

\* let mut combined = None; for model in self.models.values() { .. }
get_combined_bounds_begin ==
    /\ iter.pc = "idle"
    /\ iter' = [pc |-> "loop", pending |-> DOMAIN models, combined |-> None]
    /\ UNCHANGED <<models, primary_model, next_id, op, args, ret, input, output, statics, threads>>

\* one iteration; the HashMap yields its values in an unspecified order
get_combined_bounds_visit ==
    /\ iter.pc = "loop"
    /\ \E id \in iter.pending :
          iter' = [ pc       |-> "loop",
                    pending  |-> iter.pending \ {id},
                    combined |-> combined_bounds_step(iter.combined, models[id]) ]
    /\ UNCHANGED <<models, primary_model, next_id, op, args, ret, input, output, statics, threads>>

\* the loop is exhausted: return combined
get_combined_bounds_return ==
    /\ iter.pc = "loop"
    /\ iter.pending = {}
    /\ iter' = [iter EXCEPT !.pc = "done"]
    /\ op' = "get_combined_bounds"
    /\ args' = <<>>
    /\ output' = iter.combined
    /\ UNCHANGED <<models, primary_model, next_id, ret, input, statics, threads>>

\* registries whose entries carry any visible flag and any cached bounds
InitBounds ==
    /\ \E ids \in SUBSET GeneratedIds :
          /\ models \in [ids -> { [ model     |-> BimModel_new,
                                    name      |-> "Test Model",
                                    file_path |-> None,
                                    visible   |-> v,
                                    transform |-> identity_matrix,
                                    bounds    |-> b ] :
                                  v \in BOOLEAN, b \in CachedBounds }]
          /\ keys_next(models, primary_model)
    /\ next_id = 1
    /\ op = "new" /\ args = <<>> /\ ret = "()"
    /\ Idle

NextBounds ==
    \/ get_combined_bounds_begin
    \/ get_combined_bounds_visit
    \/ get_combined_bounds_return

SpecBounds == InitBounds /\ [][NextBounds]_vars

\* least / greatest element of a non-empty set of numbers
Least(S) == CHOOSE m \in S : \A x \in S : m <= x
Greatest(S) == CHOOSE m \in S : \A x \in S : m >= x

\* the boxes of the registered models that are visible and have bounds
VisibleBoxes == {models[id].bounds[1] :
                    id \in {k \in DOMAIN models : models[k].visible /\ models[k].bounds # None}}

\* component-wise min/max over the visible boxes, None if there is none
UnionOfVisibleBoxes ==
    IF VisibleBoxes = {}
       THEN None
       ELSE Some([ min |-> [i \in 1..3 |-> Least({b.min[i] : b \in VisibleBoxes})],
                   max |-> [i \in 1..3 |-> Greatest({b.max[i] : b \in VisibleBoxes})] ])

\* the registry holds exactly model_1 with box [0,1]^3 and model_2 with box [2,3]^3
TwoBoxes ==
    /\ DOMAIN models = {"model_1", "model_2"}
    /\ models["model_1"].bounds = Some(Box01)
    /\ models["model_2"].bounds = Some(Box23)

\* C6 get_combined_bounds returns the component-wise min/max union of the
\* bounds of exactly the visible models that have bounds, whatever the order
\* of iteration, and None when there is none; boxes [0,1]^3 and [2,3]^3 give
\* (0,0,0)..(3,3,3), and with one of them hidden the other box alone
CombinedBoundsIsVisibleUnion ==
    iter.pc = "done" =>
        /\ output = UnionOfVisibleBoxes
        /\ (TwoBoxes /\ models["model_1"].visible /\ models["model_2"].visible)
              => output = Some([min |-> <<0, 0, 0>>, max |-> <<3, 3, 3>>])
        /\ (TwoBoxes /\ ~models["model_1"].visible /\ models["model_2"].visible)
              => output = Some(Box23)
        /\ (TwoBoxes /\ models["model_1"].visible /\ ~models["model_2"].visible)
              => output = Some(Box01)
        /\ (\A id \in DOMAIN models : ~models[id].visible \/ models[id].bounds = None)
              => output = None

\* C6 witness: the union of two visible boxes was returned and the box of a
\* hidden third model was left out
CombinedThreeBoxesState ==
    /\ iter.pc = "done"
    /\ Cardinality(DOMAIN models) = 3
    /\ Cardinality(VisibleBoxes) = 2
    /\ \E id \in DOMAIN models : ~models[id].visible /\ models[id].bounds = Some(BoxSkew)
    /\ output = Some([min |-> <<0, 0, 0>>, max |-> <<3, 3, 3>>])

(***************************************************************************)
(* The STEP value grammar (bim/ifc_parser.rs).  Text is a sequence of      *)
(* one-character strings; a parser returns [ok, rest, val]: the nom        *)
(* IResult with the remaining input and the decoded value.                 *)
(***************************************************************************)
\* longest text handed to parse_value
MaxLen == 4

\* the characters the texts under test are made of
ValueChars == {"1", "5", ".", "E", "-", "T", "$", "#", "'", "(", ",", ")", " "}

DigitChars == {"0", "1", "2", "3", "4", "5", "6", "7", "8", "9"}
UpperChars == {"A", "B", "C", "D", "E", "F", "G", "H", "I", "J", "K", "L", "M",
               "N", "O", "P", "Q", "R", "S", "T", "U", "V", "W", "X", "Y", "Z"}
LowerChars == {"a", "b", "c", "d", "e", "f", "g", "h", "i", "j", "k", "l", "m",
               "n", "o", "p", "q", "r", "s", "t", "u", "v", "w", "x", "y", "z"}
SpaceChars == {" ", "\t", "\n", "\r"}
\* |c: char| c.is_alphanumeric() || c == '_'
WordChars == DigitChars \cup UpperChars \cup LowerChars \cup {"_"}

ParseErr == [ok |-> FALSE, rest |-> <<>>, val |-> [kind |-> "Error", v |-> 0]]
ParseOk(rest, val) == [ok |-> TRUE, rest |-> rest, val |-> val]

Drop(s, n) == SubSeq(s, n + 1, Len(s))
Take(s, n) == SubSeq(s, 1, n)

\* length of the longest prefix of s made of characters of cs (take_while)
PrefixIn(s, cs) ==
    Least({i \in 1..(Len(s) + 1) : i > Len(s) \/ s[i] \notin cs}) - 1

\* length of the longest prefix of s free of characters of cs
PrefixNotIn(s, cs) ==
    Least({i \in 1..(Len(s) + 1) : i > Len(s) \/ s[i] \in cs}) - 1

\* tag(t): s starts with the text t
StartsWith(s, t) == Len(s) >= Len(t) /\ Take(s, Len(t)) = t

\* multispace0: the input after its leading whitespace
multispace0(s) == Drop(s, PrefixIn(s, SpaceChars))

DigitValue(c) == CHOOSE d \in 0..9 : ToString(d) = c

\* str::parse of a string of decimal digits
RECURSIVE DecimalValue(_)
DecimalValue(ds) ==
    IF ds = <<>> THEN 0
    ELSE 10 * DecimalValue(Take(ds, Len(ds) - 1)) + DigitValue(ds[Len(ds)])

\* char::to_uppercase on the letters of the alphabet
ToUpperChar(c) ==
    IF c \in LowerChars
       THEN CHOOSE u \in UpperChars :
               \E i \in 1..26 :
                  /\ <<"a","b","c","d","e","f","g","h","i","j","k","l","m",
                       "n","o","p","q","r","s","t","u","v","w","x","y","z">>[i] = c
                  /\ <<"A","B","C","D","E","F","G","H","I","J","K","L","M",
                       "N","O","P","Q","R","S","T","U","V","W","X","Y","Z">>[i] = u
       ELSE c

to_uppercase(s) == [i \in 1..Len(s) |-> ToUpperChar(s[i])]

\* opt(one_of("+-")): the number of characters the sign takes
SignLen(s) == IF s # <<>> /\ s[1] \in {"+", "-"} THEN 1 ELSE 0

\* parse_entity_id: '#' digit1
parse_entity_id(s) ==
    IF s # <<>> /\ s[1] = "#" /\ PrefixIn(Tail(s), DigitChars) > 0
       THEN LET n == PrefixIn(Tail(s), DigitChars)
            IN  ParseOk(Drop(s, n + 1),
                        [kind |-> "EntityRef", v |-> DecimalValue(Take(Tail(s), n))])
       ELSE ParseErr

parse_entity_ref(s) == parse_entity_id(s)

\* parse_string: '\'' take_while(|c| c != '\'') '\''
parse_string(s) ==
    IF s # <<>> /\ s[1] = "'"
       THEN LET n == PrefixNotIn(Tail(s), {"'"})
            IN  IF n < Len(Tail(s))
                   THEN ParseOk(Drop(s, n + 2), [kind |-> "String", v |-> Take(Tail(s), n)])
                   ELSE ParseErr
       ELSE ParseErr

\* opt(tuple((char('.'), digit1))): the number of characters it takes
FractionLen(s) ==
    IF s # <<>> /\ s[1] = "." /\ PrefixIn(Tail(s), DigitChars) > 0
       THEN 1 + PrefixIn(Tail(s), DigitChars)
       ELSE 0

\* opt(tuple((one_of("eE"), opt(one_of("+-")), digit1))): the number of
\* characters it takes
ExponentLen(s) ==
    IF s # <<>> /\ s[1] \in {"e", "E"}
                /\ PrefixIn(Drop(s, 1 + SignLen(Tail(s))), DigitChars) > 0
       THEN 1 + SignLen(Tail(s)) + PrefixIn(Drop(s, 1 + SignLen(Tail(s))), DigitChars)
       ELSE 0

\* the value of an exponent: [sign] digits, or nothing
ExponentValue(e) ==
    IF e = <<>> THEN 0
    ELSE IF e[1] = "-" THEN 0 - DecimalValue(Tail(e))
    ELSE DecimalValue(Drop(e, SignLen(e)))

\* number_str.parse::<f64>(), negated after a '-': s holds n characters of
\* sign and integer part, fl of fraction (with its point) and el of exponent
\* (with its e); the f64 is kept as mant * 10^exp
float_value(s, n, fl, el) ==
    ParseOk(Drop(s, n + fl + el),
            [kind |-> "Real",
             v |-> [ mant |-> (IF s[1] = "-" THEN -1 ELSE 1)
                                 * DecimalValue(SubSeq(s, SignLen(s) + 1, n)
                                                   \o SubSeq(s, n + 2, n + fl)),
                     exp  |-> ExponentValue(SubSeq(s, n + fl + 2, n + fl + el))
                                 - (IF fl > 0 THEN fl - 1 ELSE 0) ]])

\* recognize(tuple((digit1, opt(fraction), opt(exponent)))) after sl
\* characters of sign, il of them digits
float_digits(s, sl, il) ==
    IF il = 0
       THEN ParseErr
       ELSE float_value(s, sl + il, FractionLen(Drop(s, sl + il)),
                        ExponentLen(Drop(s, sl + il + FractionLen(Drop(s, sl + il)))))

\* parse_float: opt(sign) recognize(digit1 opt('.' digit1) opt([eE] opt(sign) digit1))
parse_float(s) == float_digits(s, SignLen(s), PrefixIn(Drop(s, SignLen(s)), DigitChars))

\* parse_integer: opt(sign) digit1, refused when the next character is '.'
parse_integer(s) ==
    LET sl   == SignLen(s)
        body == Drop(s, sl)
        il   == PrefixIn(body, DigitChars)
        rest == Drop(body, il)
        abs  == DecimalValue(Take(body, il))
    IN  IF il = 0 \/ (rest # <<>> /\ rest[1] = ".")
           THEN ParseErr
           ELSE ParseOk(rest, [kind |-> "Integer",
                               v |-> IF sl = 1 /\ s[1] = "-" THEN -abs ELSE abs])

\* variant: no boolean token is recognised
parse_boolean_disabled(s) == ParseErr

\* parse_boolean: alt(tag(".T."), tag(".F."), tag(".TRUE."), tag(".FALSE."))
parse_boolean(s) ==
    IF StartsWith(s, <<".", "T", ".">>)
       THEN ParseOk(Drop(s, 3), [kind |-> "Boolean", v |-> TRUE])
    ELSE IF StartsWith(s, <<".", "F", ".">>)
       THEN ParseOk(Drop(s, 3), [kind |-> "Boolean", v |-> FALSE])
    ELSE IF StartsWith(s, <<".", "T", "R", "U", "E", ".">>)
       THEN ParseOk(Drop(s, 6), [kind |-> "Boolean", v |-> TRUE])
    ELSE IF StartsWith(s, <<".", "F", "A", "L", "S", "E", ".">>)
       THEN ParseOk(Drop(s, 7), [kind |-> "Boolean", v |-> FALSE])
    ELSE ParseErr

\* parse_enum: '.' take_while1(word char) '.', upper-cased
parse_enum(s) ==
    IF s # <<>> /\ s[1] = "."
       THEN LET n == PrefixIn(Tail(s), WordChars)
            IN  IF n > 0 /\ n < Len(Tail(s)) /\ s[n + 2] = "."
                   THEN ParseOk(Drop(s, n + 2),
                                [kind |-> "Enum", v |-> to_uppercase(Take(Tail(s), n))])
                   ELSE ParseErr
       ELSE ParseErr

\* variant: the integer grammar is tried before the real-number grammar
IntegerBeforeFloat ==
    <<"null", "entity_ref", "string", "integer", "float", "boolean", "enum", "list">>

\* the alternatives of parse_value, in the order alt() tries them
ValueAlternatives ==
    <<"null", "entity_ref", "string", "float", "integer", "boolean", "enum", "list">>

RECURSIVE parse_value(_), parse_list(_), separated_list_rest(_, _), alt_from(_, _)
RECURSIVE separated_list_element(_, _, _)

\* separated_list0: r is the outcome of parse_value for the next element;
\* when it failed the list ends at s, before the separator
separated_list_element(s, acc, r) ==
    IF r.ok THEN separated_list_rest(r.rest, Append(acc, r.val))
            ELSE ParseOk(s, acc)

\* separated_list0(char(','), parse_value) after an element: a separator
\* that no value follows is left unconsumed
separated_list_rest(s, acc) ==
    IF s # <<>> /\ s[1] = ","
       THEN separated_list_element(s, acc, parse_value(Tail(s)))
       ELSE ParseOk(s, acc)

\* separated_list0(char(','), parse_value)
separated_list0(s) == separated_list_element(s, <<>>, parse_value(s))

\* delimited(.., char(')')): the closing parenthesis after the elements l
list_close(l) ==
    IF l.rest # <<>> /\ l.rest[1] = ")"
       THEN ParseOk(Tail(l.rest), [kind |-> "List", v |-> l.val])
       ELSE ParseErr

\* parse_list: delimited(char('('), separated_list0(..), char(')'))
parse_list(s) ==
    IF s # <<>> /\ s[1] = "(" THEN list_close(separated_list0(Tail(s))) ELSE ParseErr

\* parse_attribute_list has the grammar of parse_list
parse_attribute_list(s) == parse_list(s)

\* one alternative of parse_value applied to s
Alternative(name, s) ==
    CASE name = "null" ->
            IF s # <<>> /\ s[1] = "$"
               THEN ParseOk(Tail(s), [kind |-> "Null", v |-> 0]) ELSE ParseErr
      [] name = "entity_ref" -> parse_entity_ref(s)
      [] name = "string"     -> parse_string(s)
      [] name = "float"      -> parse_float(s)
      [] name = "integer"    -> parse_integer(s)
      [] name = "boolean"    -> parse_boolean(s)
      [] name = "enum"       -> parse_enum(s)
      [] name = "list"       -> parse_list(s)

\* alt((..)): the first alternative from the k-th on that succeeds
alt_from(k, s) ==
    IF k > Len(ValueAlternatives)
       THEN ParseErr
       ELSE LET r == Alternative(ValueAlternatives[k], s)
            IN  IF r.ok THEN r ELSE alt_from(k + 1, s)

\* parse_value: leading whitespace is skipped; the result of alt() is
\* returned as it is, so the rest starts right after the value
parse_value(s) == alt_from(1, multispace0(s))

(***************************************************************************)
(* Specification of the value grammar: parse_value applied to every text   *)
(* of at most MaxLen characters.                                           *)
(***************************************************************************)
Texts == UNION {[1..n -> ValueChars] : n \in 1..MaxLen}

InitValue ==
    /\ ModelRegistry_new
    /\ op = "new" /\ args = <<>> /\ ret = "()"
    /\ iter = IterIdle /\ ApiIdle
    /\ input \in Texts
    /\ output = None

call_parse_value ==
    /\ op = "new"
    /\ op' = "parse_value"
    /\ output' = Some(parse_value(input))
    /\ UNCHANGED <<models, primary_model, next_id, args, ret, iter, input, statics, threads>>

NextValue == call_parse_value

SpecValue == InitValue /\ [][NextValue]_vars

\* an optional sign followed by decimal digits and nothing else
PlainInteger(s) ==
    /\ Len(s) > SignLen(s)
    /\ \A i \in (SignLen(s) + 1)..Len(s) : s[i] \in DigitChars

\* C10 a token of an optional sign and decimal digits decodes as Integer,
\* never as Real
PlainDigitsDecodeAsInteger ==
    (op = "parse_value" /\ PlainInteger(input)) =>
        /\ output[1].ok
        /\ output[1].val.kind = "Integer"
        /\ output[1].rest = <<>>

(***************************************************************************)
(* The STEP file grammar (bim/ifc_parser.rs), on the same texts.           *)
(***************************************************************************)
\* tag("ISO-10303-21;")
ISO_TAG ==
    << "I", "S", "O", "-", "1", "0", "3", "0", "3", "-", "2", "1", ";" >>

\* tag("HEADER;")
HEADER_TAG ==
    << "H", "E", "A", "D", "E", "R", ";" >>

\* tag("ENDSEC;") / take_until("ENDSEC;")
ENDSEC_TAG ==
    << "E", "N", "D", "S", "E", "C", ";" >>

\* tag("DATA;")
DATA_TAG ==
    << "D", "A", "T", "A", ";" >>

\* tag("END-ISO-10303-21;")
FOOTER_TAG ==
    << "E", "N", "D", "-", "I", "S", "O", "-", "1", "0", "3", "0", "3", "-",
      "2", "1", ";" >>

\* index of the first occurrence of the text t in s, 0 if there is none
FindText(s, t) ==
    LET hits == {i \in 1..(Len(s) - Len(t) + 1) : SubSeq(s, i, i + Len(t) - 1) = t}
    IN  IF hits = {} THEN 0 ELSE Least(hits)

\* input.replace("\r\n", "\n"): every CR that a LF follows is dropped
replace_crlf(s) ==
    LET keep == {i \in 1..Len(s) : ~(s[i] = "\r" /\ i < Len(s) /\ s[i + 1] = "\n")}
    IN  [k \in 1..Cardinality(keep) |->
            s[CHOOSE i \in keep : Cardinality({j \in keep : j <= i}) = k]]

\* variant: the footer is not required
parse_iso_footer_optional(s) == ParseOk(multispace0(s), 0)

parse_iso_header(s) ==
    LET s1 == multispace0(s)
    IN  IF StartsWith(s1, ISO_TAG)
           THEN ParseOk(multispace0(Drop(s1, Len(ISO_TAG))), 0)
           ELSE ParseErr

parse_iso_footer(s) ==
    LET s1 == multispace0(s)
    IN  IF StartsWith(s1, FOOTER_TAG)
           THEN ParseOk(Drop(s1, Len(FOOTER_TAG)), 0)
           ELSE ParseErr

\* IfcHeader::default()
IfcHeader_default ==
    [ file_description |-> <<>>, file_name |-> <<>>, time_stamp |-> <<>>,
      author |-> <<>>, organization |-> <<>>, preprocessor_version |-> <<>>,
      originating_system |-> <<>>, authorization |-> <<>> ]

\* parse_header_section: "HEADER;" .. the first "ENDSEC;"; the content is skipped
parse_header_section(s) ==
    IF ~StartsWith(s, HEADER_TAG)
       THEN ParseErr
       ELSE LET s1 == multispace0(Drop(s, Len(HEADER_TAG)))
                at == FindText(s1, ENDSEC_TAG)
            IN  IF at = 0
                   THEN ParseErr
                   ELSE ParseOk(multispace0(Drop(s1, at - 1 + Len(ENDSEC_TAG))),
                                IfcHeader_default)

\* parse_entity_type: take_while1(word char), upper-cased
parse_entity_type(s) ==
    LET n == PrefixIn(s, WordChars)
    IN  IF n = 0 THEN ParseErr ELSE ParseOk(Drop(s, n), to_uppercase(Take(s, n)))

\* parse_entity_instance after the attribute list: ';' and trailing whitespace
entity_end(rid, rty, rat) ==
    IF ~rat.ok \/ rat.rest = <<>> \/ Head(rat.rest) # ";"
       THEN ParseErr
       ELSE ParseOk(multispace0(Tail(rat.rest)),
                    [ id          |-> rid.val.v,
                      entity_type |-> rty.val,
                      attributes  |-> rat.val.v ])

\* parse_entity_instance after the type name: the attribute list
entity_attributes(rid, rty) ==
    IF ~rty.ok THEN ParseErr
               ELSE entity_end(rid, rty, parse_attribute_list(rty.rest))

\* parse_entity_instance after the id: '=' and the type name
entity_type_name(rid) ==
    IF ~rid.ok \/ rid.rest = <<>> \/ Head(rid.rest) # "="
       THEN ParseErr
       ELSE entity_attributes(rid, parse_entity_type(Tail(rid.rest)))

\* parse_entity_instance: #id=TYPE(attributes);
parse_entity_instance(s) == entity_type_name(parse_entity_id(multispace0(s)))

\* many0(parse_entity_instance): stops at the first instance that fails
RECURSIVE many0_entities(_, _), many0_next(_, _, _)
many0_next(s, acc, r) ==
    IF ~r.ok
       THEN ParseOk(s, acc)
       ELSE IF Len(r.rest) = Len(s)
               THEN ParseErr
               ELSE many0_entities(r.rest, Append(acc, r.val))

many0_entities(s, acc) == many0_next(s, acc, parse_entity_instance(s))

\* parse_data_section after the instances: "ENDSEC;"
data_section_end(r) ==
    IF r.ok /\ StartsWith(multispace0(r.rest), ENDSEC_TAG)
       THEN ParseOk(Drop(multispace0(r.rest), Len(ENDSEC_TAG)), r.val)
       ELSE ParseErr

\* parse_data_section: "DATA;" instances "ENDSEC;"
parse_data_section(s) ==
    IF ~StartsWith(s, DATA_TAG)
       THEN ParseErr
       ELSE data_section_end(many0_entities(multispace0(Drop(s, Len(DATA_TAG))), <<>>))

\* entities.into_iter().map(|e| (e.id, e)).collect(): a later instance
\* replaces an earlier one with the same id
RECURSIVE collect_entities(_)
collect_entities(es) ==
    IF es = <<>> THEN EmptyMap
    ELSE Insert(collect_entities(Take(es, Len(es) - 1)), es[Len(es)].id, es[Len(es)])

\* parse_ifc_file after the footer: the IfcFile of the header and the entities
ifc_file_of(r2, r3, r4) ==
    IF ~r4.ok THEN ParseErr
    ELSE ParseOk(r4.rest, [ header   |-> r2.val,
                            entities |-> collect_entities(r3.val) ])

\* parse_ifc_file after the data section: the footer
file_footer(r2, r3) ==
    IF ~r3.ok THEN ParseErr ELSE ifc_file_of(r2, r3, parse_iso_footer(r3.rest))

\* parse_ifc_file after the header section: the data section
file_data(r2) ==
    IF ~r2.ok THEN ParseErr ELSE file_footer(r2, parse_data_section(r2.rest))

\* parse_ifc_file after the ISO tag: the header section
file_header(r1) ==
    IF ~r1.ok THEN ParseErr ELSE file_data(parse_header_section(r1.rest))

\* parse_ifc_file: ISO tag, header section, data section, footer
parse_ifc_file(s) == file_header(parse_iso_header(s))

\* IfcFile::parse: Ok(ifc_file) or Err(message)
IfcFile_parse(text) == parse_ifc_file(replace_crlf(text))

entity_count(ifc_file) == Cardinality(DOMAIN ifc_file.entities)

IFCWALL ==
    << "I", "F", "C", "W", "A", "L", "L" >>

IFCSLAB ==
    << "I", "F", "C", "S", "L", "A", "B" >>

IFCDOOR ==
    << "I", "F", "C", "D", "O", "O", "R" >>

\* IfcFile::get_entities_by_type: the ids of the entities of that type
get_entities_by_type(ifc_file, entity_type) ==
    {id \in DOMAIN ifc_file.entities :
        to_uppercase(ifc_file.entities[id].entity_type) = to_uppercase(entity_type)}

\* BimModel::from_ifc_file, for the element kinds of the files under test;
\* it returns Ok for every parsed file
from_ifc_file(ifc_file) ==
    LET walls == get_entities_by_type(ifc_file, IFCWALL)
        slabs == get_entities_by_type(ifc_file, IFCSLAB)
        doors == get_entities_by_type(ifc_file, IFCDOOR)
    IN  [ walls |-> walls, slabs |-> slabs, doors |-> doors,
          element_count |-> Cardinality(walls) + Cardinality(slabs) + Cardinality(doors) ]

(***************************************************************************)
(* The files under test: a file is described by the sequence of its parts  *)
(* and rendered to text, one part per line.                                *)
(***************************************************************************)
\* content of the HEADER section
HeaderText ==
    << "F", "I", "L", "E", "_", "N", "A", "M", "E", "(", "'", "a", "'", ")",
      ";" >>

\* a wall instance
WallText ==
    << "#", "1", "=", "I", "F", "C", "W", "A", "L", "L", "(", "'", "g", "1",
      "'", ",", "$", ",", "'", "W", "'", ")", ";" >>

\* a door instance
DoorText ==
    << "#", "2", "=", "I", "F", "C", "D", "O", "O", "R", "(", "'", "g", "2",
      "'", ",", "$", ",", "'", "D", "'", ",", "$", ",", "$", ",", "2", ".",
      "1", ",", "0", ".", "9", ")", ";" >>

\* a slab instance carrying the id of the wall
SlabText ==
    << "#", "1", "=", "I", "F", "C", "S", "L", "A", "B", "(", "'", "g", "3",
      "'", ",", "$", ",", "$", ")", ";" >>

\* malformed instance: the attribute list is not closed
BadListText ==
    << "#", "3", "=", "I", "F", "C", "W", "A", "L", "L", "(", "'", "g", "'",
      ",", "$", ";" >>

\* malformed instance: no = after the id
BadEqText ==
    << "#", "4", "I", "F", "C", "W", "A", "L", "L", "(", ")", ";" >>

RequiredParts == {"ISO", "HEADER", "ENDSEC", "DATA", "END"}
EntityParts == {"WALL", "DOOR", "SLAB"}
BadEntityParts == {"BADLIST", "BADEQ"}

PartText(part) ==
    CASE part = "ISO"     -> ISO_TAG
      [] part = "HEADER"  -> HEADER_TAG
      [] part = "HTEXT"   -> HeaderText
      [] part = "ENDSEC"  -> ENDSEC_TAG
      [] part = "DATA"    -> DATA_TAG
      [] part = "END"     -> FOOTER_TAG
      [] part = "WALL"    -> WallText
      [] part = "DOOR"    -> DoorText
      [] part = "SLAB"    -> SlabText
      [] part = "BADLIST" -> BadListText
      [] part = "BADEQ"   -> BadEqText

\* the text of a file: its parts, each followed by a line end (CR LF after
\* the header content, LF elsewhere)
RECURSIVE Render(_)
Render(parts) ==
    IF parts = <<>> THEN <<>>
    ELSE PartText(Head(parts))
            \o (IF Head(parts) = "HTEXT" THEN <<"\r", "\n">> ELSE <<"\n">>)
            \o Render(Tail(parts))

\* a complete file around the given entity instances
FileOf(entities) ==
    <<"ISO", "HEADER", "HTEXT", "ENDSEC", "DATA">> \o entities \o <<"ENDSEC", "END">>

\* complete files of well-formed instances
GoodFiles == { FileOf(<<>>), FileOf(<<"WALL">>), FileOf(<<"WALL", "DOOR">>),
               FileOf(<<"WALL", "SLAB">>) }

WithoutPart(f, i) == SubSeq(f, 1, i - 1) \o SubSeq(f, i + 1, Len(f))

\* a complete file from which one required tag was taken away
FilesMissingTag(goods) ==
    { WithoutPart(f, i) : <<f, i>> \in
         { <<g, j>> \in goods \X (1..9) : j <= Len(g) /\ g[j] \in RequiredParts } }

\* a complete file one of whose instances is replaced by a malformed one
FilesWithBadEntity(goods) ==
    { [fi[1] EXCEPT ![fi[2]] = fi[3]] : fi \in
         { <<g, j, b>> \in goods \X (1..9) \X BadEntityParts :
              j <= Len(g) /\ g[j] \in EntityParts } }

MalformedFiles == FilesMissingTag(GoodFiles) \cup FilesWithBadEntity(GoodFiles)

\* the files the API is driven with: one complete file and its malformed variants
ApiGoodFiles == {FileOf(<<"WALL", "DOOR">>)}
ApiMalformedFiles == FilesMissingTag(ApiGoodFiles) \cup FilesWithBadEntity(ApiGoodFiles)
ApiFiles == ApiGoodFiles \cup ApiMalformedFiles

\* IfcFile::parse of the text of each of these files
ParsedFiles == [f \in ApiFiles |-> IfcFile_parse(Render(f))]

(***************************************************************************)
(* The API functions that drive the global MODEL_REGISTRY (api.rs).  Each  *)
(* takes the registry lock for its whole update, so each is one step.      *)
(***************************************************************************)
\* the path handed to load_ifc_file / load_model
SitePath ==
    << "m", "o", "d", "e", "l", "s", "/", "s", "i", "t", "e", ".", "i", "f",
      "c" >>

\* "Parsed Model".to_string()
ParsedModelName ==
    << "P", "a", "r", "s", "e", "d", " ", "M", "o", "d", "e", "l" >>

\* unwrap_or("Untitled")
Untitled ==
    << "U", "n", "t", "i", "t", "l", "e", "d" >>

Paths == {SitePath}

\* ids handed to load_model / unload_model_by_id / set_..
ApiIds == {"model_1", "legacy"}

\* tokio::fs::read_to_string: the content of the path is one of the files, or
\* the read fails
ReadFailed == <<"unreadable">>
ReadResults == ApiFiles \cup {ReadFailed}

LastIndexOf(s, c) == Greatest({0} \cup {i \in 1..Len(s) : s[i] = c})

\* Path::file_stem: the final component without its extension
file_stem(path) ==
    LET name == Drop(path, LastIndexOf(path, "/"))
        dot  == LastIndexOf(name, ".")
    IN  IF name = <<>> \/ name = <<".", ".">> THEN None
        ELSE IF dot <= 1 THEN Some(name)
        ELSE Some(Take(name, dot - 1))

\* .file_stem().and_then(|s| s.to_str()).unwrap_or("Untitled")
NameOfPath(path) == IF file_stem(path) = None THEN Untitled ELSE file_stem(path)[1]

ErrRead == "Err(Failed to read file)"
ErrParse == "Err(Failed to parse IFC file)"

\* pub async fn load_ifc_file(file_path)
load_ifc_file(file_path, read) ==
    /\ op' = "load_ifc_file"
    /\ args' = <<file_path>>
    /\ IF read = ReadFailed
          THEN ret' = ErrRead /\ input' = <<>> /\ UNCHANGED registry
          ELSE /\ input' = read
               /\ IF ~ParsedFiles[read].ok
                     THEN ret' = ErrParse /\ UNCHANGED registry
                     ELSE /\ \E r \in GeneratedIds :
                               ModelRegistry_add_model(from_ifc_file(ParsedFiles[read].val),
                                                       NameOfPath(file_path), Some(file_path), r)
                          /\ ret' = "Ok"
    /\ UNCHANGED <<iter, output, statics, threads>>

\* pub async fn parse_ifc_content(content)
parse_ifc_content(content) ==
    /\ op' = "parse_ifc_content"
    /\ args' = <<>>
    /\ input' = content
    /\ IF ~ParsedFiles[content].ok
          THEN ret' = ErrParse /\ UNCHANGED registry
          ELSE /\ \E r \in GeneratedIds :
                    ModelRegistry_add_model(from_ifc_file(ParsedFiles[content].val),
                                            ParsedModelName, None, r)
               /\ ret' = "Ok"
    /\ UNCHANGED <<iter, output, statics, threads>>

\* pub async fn load_model(model_id, file_path)
load_model(model_id, file_path, read) ==
    /\ op' = "load_model"
    /\ args' = <<model_id, file_path>>
    /\ IF read = ReadFailed
          THEN ret' = ErrRead /\ input' = <<>> /\ UNCHANGED registry
          ELSE /\ input' = read
               /\ IF ~ParsedFiles[read].ok
                     THEN ret' = ErrParse /\ UNCHANGED registry
                     ELSE /\ \E r \in ApiIds :
                               ModelRegistry_add_model_with_id(model_id,
                                    from_ifc_file(ParsedFiles[read].val),
                                    NameOfPath(file_path), Some(file_path), r)
                          /\ ret' = "Ok"
    /\ UNCHANGED <<iter, output, statics, threads>>

\* pub fn is_model_loaded()
is_model_loaded == ~is_empty

\* variant: unloads any registered model, not the primary one
unload_model_any ==
    /\ op' = "unload_model"
    /\ args' = <<>>
    /\ IF is_empty
          THEN ret' = "Err(No model loaded)" /\ UNCHANGED registry
          ELSE /\ \E id \in DOMAIN models, r \in {"Some", "None"} :
                    ModelRegistry_remove_model(id, r)
               /\ ret' = "Ok"
    /\ UNCHANGED <<iter, input, output, statics, threads>>

\* pub fn unload_model()
unload_model ==
    /\ op' = "unload_model"
    /\ args' = <<>>
    /\ IF is_empty
          THEN ret' = "Err(No model loaded)" /\ UNCHANGED registry
          ELSE IF get_primary_model_id # None
                  THEN /\ \E r \in {"Some", "None"} :
                            ModelRegistry_remove_model(get_primary_model_id[1], r)
                       /\ ret' = "Ok"
                  ELSE ret' = "Err(No primary model to unload)" /\ UNCHANGED registry
    /\ UNCHANGED <<iter, input, output, statics, threads>>

\* pub fn unload_model_by_id(model_id)
unload_model_by_id(model_id) ==
    /\ op' = "unload_model_by_id"
    /\ args' = <<model_id>>
    /\ \E r \in {"Some", "None"} :
          /\ ModelRegistry_remove_model(model_id, r)
          /\ ret' = IF r = "Some" THEN "Ok" ELSE "Err(not found)"
    /\ UNCHANGED <<iter, input, output, statics, threads>>

\* pub fn set_model_visible(model_id, visible)
api_set_model_visible(model_id, visible) ==
    /\ op' = "set_model_visible"
    /\ args' = <<model_id, visible>>
    /\ \E r \in Results : ModelRegistry_set_model_visible(model_id, visible, r) /\ ret' = r
    /\ UNCHANGED <<iter, input, output, statics, threads>>

\* pub fn set_primary_model(model_id)
api_set_primary_model(model_id) ==
    /\ op' = "set_primary_model"
    /\ args' = <<model_id>>
    /\ \E r \in Results : ModelRegistry_set_primary_model(model_id, r) /\ ret' = r
    /\ UNCHANGED <<iter, input, output, statics, threads>>

\* pub fn clear_all_models()
clear_all_models ==
    /\ op' = "clear_all_models"
    /\ args' = <<>>
    /\ ModelRegistry_clear
    /\ ret' = "()"
    /\ UNCHANGED <<iter, input, output, statics, threads>>

\* the ids the API functions are called with
ApiCallIds == GeneratedIds \cup ApiIds

NextApi ==
    \/ \E p \in Paths, rd \in ReadResults : load_ifc_file(p, rd)
    \/ \E c \in ApiFiles : parse_ifc_content(c)
    \/ \E id \in ApiIds, p \in Paths, rd \in ReadResults : load_model(id, p, rd)
    \/ unload_model
    \/ \E id \in ApiCallIds : unload_model_by_id(id)
    \/ \E id \in ApiCallIds, v \in BOOLEAN : api_set_model_visible(id, v)
    \/ \E id \in ApiCallIds : api_set_primary_model(id)
    \/ clear_all_models

\* static MODEL_REGISTRY = ModelRegistry::new()
InitApi == Init

SpecApi == InitApi /\ [][NextApi]_vars

LoadOps == {"load_ifc_file", "parse_ifc_content", "load_model"}

\* IfcFile::parse rejects every file with a missing tag or a malformed instance
MalformedFilesRejected == \A f \in MalformedFiles : ~IfcFile_parse(Render(f)).ok

\* C9 a structural parse failure yields no model and no state change:
\* IfcFile::parse returns Err whenever the ISO tag, HEADER;, its ENDSEC;,
\* DATA;, the data ENDSEC; or the footer is missing or an entity instance is
\* malformed, and load_ifc_file, load_model and parse_ifc_content then return
\* Err with the registry's models, primary and id counter unchanged
ParseFailureLoadsNothing ==
    [][ /\ MalformedFilesRejected
        /\ ( /\ op' \in LoadOps
             /\ input' \in ApiMalformedFiles )
           => /\ ret' = ErrParse
              /\ UNCHANGED registry ]_vars

\* C9 witness: a load of a file without its footer was refused while a model
\* loaded earlier is still registered
RefusedFooterlessFileState ==
    /\ op \in LoadOps
    /\ input = WithoutPart(FileOf(<<"WALL", "DOOR">>), 9)
    /\ ret = ErrParse
    /\ model_count >= 1

(***************************************************************************)
(* Specification of the file grammar: IfcFile::parse applied to every      *)
(* complete file whose DATA section holds at most MaxInstances well-formed *)
(* instances.                                                              *)
(***************************************************************************)
\* most instances in a DATA section
MaxInstances == 4

\* the DATA sections of at most MaxInstances well-formed instances
InstanceLists == UNION {[1..n -> EntityParts] : n \in 0..MaxInstances}

DataFiles == {FileOf(es) : es \in InstanceLists}

\* the instances of a complete file
InstancesOf(f) == SubSeq(f, 6, Len(f) - 2)

InitFile ==
    /\ ModelRegistry_new
    /\ op = "new" /\ args = <<>> /\ ret = "()"
    /\ iter = IterIdle /\ ApiIdle
    /\ input \in DataFiles
    /\ output = None

call_IfcFile_parse ==
    /\ op = "new"
    /\ op' = "IfcFile_parse"
    /\ output' = Some(IfcFile_parse(Render(input)))
    /\ UNCHANGED <<models, primary_model, next_id, args, ret, iter, input, statics, threads>>

NextFile == call_IfcFile_parse

SpecFile == InitFile /\ [][NextFile]_vars

\* C11 a DATA section of exactly n well-formed instances, whatever their
\* ids, parses to a file whose entity_count() is n
EntityCountIsInstanceCount ==
    (op = "IfcFile_parse") =>
        /\ output[1].ok
        /\ entity_count(output[1].val) = Len(InstancesOf(input))

(***************************************************************************)
(* Specification of the dotted tokens: parse_value applied to every        *)
(* .WORD. whose word has at most MaxWord characters, and to the boolean    *)
(* tokens.                                                                 *)
(***************************************************************************)
\* longest word between the dots
MaxWord == 3

\* the characters the words under test are made of
TokenChars == {"T", "F", "t", "a", "1", "_"}

Words == UNION {[1..n -> TokenChars] : n \in 1..MaxWord}

Dotted(w) == <<".">> \o w \o <<".">>

\* the tokens of parse_boolean and the value each stands for
BooleanTokens ==
    { <<Dotted(<<"T">>), TRUE>>, <<Dotted(<<"F">>), FALSE>>,
      <<Dotted(<<"T", "R", "U", "E">>), TRUE>>,
      <<Dotted(<<"F", "A", "L", "S", "E">>), FALSE>> }

DotTokens ==
    {Dotted(w) : w \in Words}
       \cup {bt[1] : bt \in BooleanTokens}
       \cup {Dotted(<<"t", "r", "u", "e">>), Dotted(<<"T", "R", "U", "E", "X">>)}

InitToken ==
    /\ ModelRegistry_new
    /\ op = "new" /\ args = <<>> /\ ret = "()"
    /\ iter = IterIdle /\ ApiIdle
    /\ input \in DotTokens
    /\ output = None

SpecToken == InitToken /\ [][NextValue]_vars

\* the word between the dots of a token
WordOf(token) == SubSeq(token, 2, Len(token) - 1)

Mesh_new == [vertices |-> <<>>, indices |-> <<>>, normals |-> <<>>, colors |-> <<>>]

\* Mesh::vertex_count
vertex_count(mesh) == Len(mesh.vertices) \div 3

\* Mesh::triangle_count
triangle_count(mesh) == Len(mesh.indices) \div 3

\* the coordinates of the given axis (1, 2, 3) of the vertices of a mesh
AxisValues(vertices, axis) ==
    {vertices[3 * (v - 1) + axis] : v \in 1..(Len(vertices) \div 3)}

\* Mesh::bounding_box
bounding_box(mesh) ==
    IF mesh.vertices = <<>>
       THEN None
       ELSE Some([min |-> [a \in 1..3 |-> Least(AxisValues(mesh.vertices, a))],
                  max |-> [a \in 1..3 |-> Greatest(AxisValues(mesh.vertices, a))]])

\* color_for_element_type, on the type names the mesh synthesis hands it
color_for_element_type(element_type) ==
    CASE element_type = "WALL"         -> <<85, 82, 75, 100>>
      [] element_type = "SLAB"         -> <<60, 60, 65, 100>>
      [] element_type = "DOOR"         -> <<60, 45, 30, 100>>
      [] element_type = "WINDOW"       -> <<70, 85, 95, 70>>
      [] element_type = "ROOF"         -> <<75, 50, 40, 100>>
      [] element_type = "STAIR"        -> <<65, 65, 65, 100>>
      [] element_type = "COLUMN"       -> <<50, 55, 70, 100>>
      [] element_type = "BEAM"         -> <<55, 55, 60, 100>>
      [] element_type = "FOOTING"      -> <<50, 50, 50, 100>>
      [] element_type = "PIPE"         -> <<20, 70, 50, 100>>
      [] element_type = "DUCT"         -> <<70, 75, 80, 100>>
      [] element_type = "FLOWTERMINAL" -> <<60, 65, 70, 100>>
      [] element_type = "CABLE"        -> <<90, 50, 20, 100>>
      [] element_type = "PROXY"        -> <<60, 50, 70, 100>>
      [] OTHER                         -> <<70, 70, 70, 100>>

\* one face of generate_box_with_normals: four vertices (add_vertex) with
\* the face normal and the colour, and two triangles (add_triangle) on them
add_face(mesh, corners, normal, color) ==
    [ vertices |-> mesh.vertices \o corners,
      normals  |-> mesh.normals \o normal \o normal \o normal \o normal,
      colors   |-> mesh.colors \o color \o color \o color \o color,
      indices  |-> mesh.indices \o
                     << vertex_count(mesh), vertex_count(mesh) + 1, vertex_count(mesh) + 2,
                        vertex_count(mesh) + 2, vertex_count(mesh) + 3, vertex_count(mesh) >> ]

\* the six faces of the box between lo and hi
box_faces(lo, hi, color) ==
    add_face(add_face(add_face(add_face(add_face(add_face(Mesh_new,
        << lo[1], lo[2], hi[3],  hi[1], lo[2], hi[3],
           hi[1], hi[2], hi[3],  lo[1], hi[2], hi[3] >>, <<0, 0, 1>>, color),
        << hi[1], lo[2], lo[3],  lo[1], lo[2], lo[3],
           lo[1], hi[2], lo[3],  hi[1], hi[2], lo[3] >>, <<0, 0, -1>>, color),
        << lo[1], hi[2], hi[3],  hi[1], hi[2], hi[3],
           hi[1], hi[2], lo[3],  lo[1], hi[2], lo[3] >>, <<0, 1, 0>>, color),
        << lo[1], lo[2], lo[3],  hi[1], lo[2], lo[3],
           hi[1], lo[2], hi[3],  lo[1], lo[2], hi[3] >>, <<0, -1, 0>>, color),
        << hi[1], lo[2], hi[3],  hi[1], lo[2], lo[3],
           hi[1], hi[2], lo[3],  hi[1], hi[2], hi[3] >>, <<1, 0, 0>>, color),
        << lo[1], lo[2], lo[3],  lo[1], lo[2], hi[3],
           lo[1], hi[2], hi[3],  lo[1], hi[2], lo[3] >>, <<-1, 0, 0>>, color)

\* center - size / 2 and center + size / 2
BoxMin(center, size) == [a \in 1..3 |-> center[a] - size[a] \div 2]
BoxMax(center, size) == [a \in 1..3 |-> center[a] + size[a] \div 2]

\* generate_box_with_normals(center, size, color)
generate_box_with_normals(center, size, color) ==
    box_faces(BoxMin(center, size), BoxMax(center, size), color)

\* variant: the indices of a merged mesh are not moved by the running offset
extend_mesh_unshifted(result, mesh) ==
    [ vertices |-> result.vertices \o mesh.vertices,
      normals  |-> result.normals \o mesh.normals,
      colors   |-> result.colors \o mesh.colors,
      indices  |-> result.indices \o mesh.indices ]

\* the body of the loop of merge_meshes: one mesh appended to the result
extend_mesh(result, mesh) ==
    [ vertices |-> result.vertices \o mesh.vertices,
      normals  |-> result.normals \o mesh.normals,
      colors   |-> result.colors \o mesh.colors,
      indices  |-> result.indices \o
                     [k \in 1..Len(mesh.indices) |-> mesh.indices[k] + vertex_count(result)] ]

RECURSIVE merge_into(_, _)
merge_into(result, meshes) ==
    IF meshes = <<>> THEN result
    ELSE merge_into(extend_mesh(result, Head(meshes)), Tail(meshes))

\* merge_meshes(meshes)
merge_meshes(meshes) == merge_into(Mesh_new, meshes)

(***************************************************************************)
(* Mesh synthesis (bim/model.rs): generate_meshes and                      *)
(* generate_meshes_filtered.  A model is a record of its element vectors;  *)
(* an element is [product |-> [id, global_id, name], overall_height,       *)
(* overall_width].                                                         *)
(***************************************************************************)
\* the element vectors generate_meshes walks, in its order
MeshKinds ==
    << "walls", "slabs", "columns", "beams", "doors", "windows", "roofs", "stairs",
       "footings", "pipes", "ducts", "flow_terminals", "cable_carriers", "proxies" >>

\* the element vectors generate_meshes_filtered walks, in its order
FilteredKinds == << "walls", "slabs", "columns", "beams", "doors", "windows" >>

\* per vector: the key handed to color_for_element_type, the element_type
\* of its ElementInfo and the name of an unnamed element
KindTable ==
    [ walls          |-> <<"WALL", "Wall", "Wall">>,
      slabs          |-> <<"SLAB", "Slab", "Slab">>,
      columns        |-> <<"COLUMN", "Column", "Column">>,
      beams          |-> <<"BEAM", "Beam", "Beam">>,
      doors          |-> <<"DOOR", "Door", "Door">>,
      windows        |-> <<"WINDOW", "Window", "Window">>,
      roofs          |-> <<"ROOF", "Roof", "Roof">>,
      stairs         |-> <<"STAIR", "Stair", "Stair">>,
      footings       |-> <<"FOOTING", "Footing", "Footing">>,
      pipes          |-> <<"PIPE", "Pipe", "Pipe">>,
      ducts          |-> <<"DUCT", "Duct", "Duct">>,
      flow_terminals |-> <<"FLOWTERMINAL", "FlowTerminal", "Vent">>,
      cable_carriers |-> <<"CABLE", "CableCarrier", "Cable Tray">>,
      proxies        |-> <<"PROXY", "Proxy", "Element">> ]

\* Option::unwrap_or
unwrap_or(opt, default) == IF opt = None THEN default ELSE opt[1]

\* the center of the box of the i-th element (from 0) of a vector
KindCenter(kind, i, e) ==
    CASE kind = "walls"          -> <<i * 3000, 1500, 0>>
      [] kind = "slabs"          -> <<0, i * 3500, 0>>
      [] kind = "columns"        -> <<(i % 4) * 3000 - 4500, 1500, (i \div 4) * 3000 - 3000>>
      [] kind = "beams"          -> <<0, 2800, i * 2000 - 2000>>
      [] kind = "doors"          -> <<i * 3000 + 1000, unwrap_or(e.overall_height, 2100) \div 2, 100>>
      [] kind = "windows"        -> <<i * 3000 + 1500, 1500, 100>>
      [] kind = "roofs"          -> <<0, 3150 + i * 500, 0>>
      [] kind = "stairs"         -> <<3000 + i * 2000, 1500, 2000>>
      [] kind = "footings"       -> <<(i % 4) * 3000 - 4500, -500, (i \div 4) * 3000 - 3000>>
      [] kind = "pipes"          -> <<0, 2500 + (i \div 3) * 300, (i % 3) * 2000 - 2000>>
      [] kind = "ducts"          -> <<0, 2700, (i % 2) * 4000 - 2000>>
      [] kind = "flow_terminals" -> <<(i % 4) * 2500 - 3750, 2900, (i \div 4) * 3000 - 1500>>
      [] kind = "cable_carriers" -> <<0, 2800 + (i \div 2) * 200, (i % 2) * 6000 - 3000>>
      [] kind = "proxies"        -> <<(i % 3) * 2000 - 2000, 1000, (i \div 3) * 2000 - 2000>>

\* the size of the box of an element of a vector
KindSize(kind, e) ==
    CASE kind = "walls"          -> <<2500, 3000, 200>>
      [] kind = "slabs"          -> <<10000, 300, 8000>>
      [] kind = "columns"        -> <<400, 3000, 400>>
      [] kind = "beams"          -> <<8000, 400, 300>>
      [] kind = "doors"          -> <<unwrap_or(e.overall_width, 900),
                                      unwrap_or(e.overall_height, 2100), 100>>
      [] kind = "windows"        -> <<unwrap_or(e.overall_width, 1000),
                                      unwrap_or(e.overall_height, 1200), 50>>
      [] kind = "roofs"          -> <<10000, 300, 8000>>
      [] kind = "stairs"         -> <<1500, 3000, 3000>>
      [] kind = "footings"       -> <<1000, 600, 1000>>
      [] kind = "pipes"          -> <<8000, 100, 100>>
      [] kind = "ducts"          -> <<8000, 400, 600>>
      [] kind = "flow_terminals" -> <<400, 100, 400>>
      [] kind = "cable_carriers" -> <<8000, 80, 150>>
      [] kind = "proxies"        -> <<500, 500, 500>>

\* let highlight_color = [0.2, 0.9, 0.9, 1.0]
highlight_color == <<20, 90, 90, 100>>

\* generate_meshes_filtered::apply_highlight: every vertex colour is overwritten
apply_highlight(mesh, highlight) ==
    [mesh EXCEPT !.colors = [k \in 1..Len(mesh.colors) |-> highlight[((k - 1) % 4) + 1]]]

\* variant: the selected element keeps its own colour
highlighted_never(mesh, id, selected_id) == mesh

\* the box of an element, highlighted when it is the selected one
highlighted(mesh, id, selected_id) ==
    IF selected_id = Some(id) THEN apply_highlight(mesh, highlight_color) ELSE mesh

\* let mut meshes, elements, current_triangle
NoMeshes == [meshes |-> <<>>, elements |-> <<>>, current_triangle |-> 0]

\* variant: every element is recorded as starting at triangle 0
add_element_from_zero(acc, mesh, id, element_type, name, global_id, center, size) ==
    [ meshes   |-> Append(acc.meshes, mesh),
      elements |-> Append(acc.elements,
                     [ id             |-> id,
                       element_type   |-> element_type,
                       name           |-> name,
                       global_id      |-> global_id,
                       bounds         |-> [min |-> BoxMin(center, size),
                                           max |-> BoxMax(center, size)],
                       triangle_start |-> 0,
                       triangle_count |-> triangle_count(mesh) ]),
      current_triangle |-> acc.current_triangle + triangle_count(mesh) ]

\* add_element(..) followed by meshes.push(mesh)
add_element(acc, mesh, id, element_type, name, global_id, center, size) ==
    [ meshes   |-> Append(acc.meshes, mesh),
      elements |-> Append(acc.elements,
                     [ id             |-> id,
                       element_type   |-> element_type,
                       name           |-> name,
                       global_id      |-> global_id,
                       bounds         |-> [min |-> BoxMin(center, size),
                                           max |-> BoxMax(center, size)],
                       triangle_start |-> acc.current_triangle,
                       triangle_count |-> triangle_count(mesh) ]),
      current_triangle |-> acc.current_triangle + triangle_count(mesh) ]

\* the body of the loop over one vector: the i-th element (from 0)
emit_element(acc, kind, i, e, selected_id) ==
    add_element(acc,
                highlighted(generate_box_with_normals(KindCenter(kind, i, e), KindSize(kind, e),
                                                      color_for_element_type(KindTable[kind][1])),
                            e.product.id, selected_id),
                e.product.id, KindTable[kind][2],
                unwrap_or(e.product.name, KindTable[kind][3]),
                e.product.global_id,
                KindCenter(kind, i, e), KindSize(kind, e))

\* for (i, e) in self.<kind>.iter().enumerate(), from the i-th element on
RECURSIVE emit_vector(_, _, _, _, _)
emit_vector(acc, kind, items, i, selected_id) ==
    IF i >= Len(items) THEN acc
    ELSE emit_vector(emit_element(acc, kind, i, items[i + 1], selected_id),
                     kind, items, i + 1, selected_id)

\* the loops over the vectors of the model, a hidden type being skipped
RECURSIVE emit_vectors(_, _, _, _, _)
emit_vectors(acc, model, kinds, hidden_types, selected_id) ==
    IF kinds = <<>> THEN acc
    ELSE emit_vectors(IF KindTable[Head(kinds)][2] \in hidden_types
                         THEN acc
                         ELSE emit_vector(acc, Head(kinds), model[Head(kinds)], 0, selected_id),
                      model, Tail(kinds), hidden_types, selected_id)

\* let default_elements = [(center, size, elem_type, name, type_name), ..]
default_elements ==
    << << <<0, 0, 0>>,        <<10000, 300, 8000>>,  "SLAB", "Floor",       "Slab" >>,
       << <<-4900, 1500, 0>>, <<200, 3000, 8000>>,   "WALL", "Left Wall",   "Wall" >>,
       << <<4900, 1500, 0>>,  <<200, 3000, 8000>>,   "WALL", "Right Wall",  "Wall" >>,
       << <<0, 1500, -3900>>, <<10000, 3000, 200>>,  "WALL", "Back Wall",   "Wall" >>,
       << <<0, 1500, 3900>>,  <<10000, 3000, 200>>,  "WALL", "Front Wall",  "Wall" >>,
       << <<0, 3150, 0>>,     <<10000, 300, 8000>>,  "ROOF", "Roof",        "Roof" >> >>

\* format!("default_{}", i)
DefaultGlobalId(i) == "default_" \o ToString(i)

\* generate_meshes: the loop over default_elements from the i-th (from 0);
\* the element_type recorded is elem_type
RECURSIVE emit_default_shell(_, _)
emit_default_shell(acc, i) ==
    IF i >= Len(default_elements) THEN acc
    ELSE emit_default_shell(
            add_element(acc,
                        generate_box_with_normals(default_elements[i + 1][1],
                                                  default_elements[i + 1][2],
                                                  color_for_element_type(default_elements[i + 1][3])),
                        i, default_elements[i + 1][3], default_elements[i + 1][4],
                        DefaultGlobalId(i),
                        default_elements[i + 1][1], default_elements[i + 1][2]),
            i + 1)

\* generate_meshes_filtered: the loop over default_elements from the i-th
\* (from 0); a hidden type_name is skipped and the element_type recorded is
\* type_name
RECURSIVE emit_default_shell_filtered(_, _, _, _)
emit_default_shell_filtered(acc, i, hidden_types, selected_id) ==
    IF i >= Len(default_elements) THEN acc
    ELSE emit_default_shell_filtered(
            IF default_elements[i + 1][5] \in hidden_types
               THEN acc
               ELSE add_element(acc,
                        highlighted(generate_box_with_normals(default_elements[i + 1][1],
                                        default_elements[i + 1][2],
                                        color_for_element_type(default_elements[i + 1][3])),
                                    i, selected_id),
                        i, default_elements[i + 1][5], default_elements[i + 1][4],
                        DefaultGlobalId(i),
                        default_elements[i + 1][1], default_elements[i + 1][2]),
            i + 1, hidden_types, selected_id)

\* the ModelMesh of the merged meshes and the elements
ModelMesh_of(merged, elements) ==
    [ vertices |-> merged.vertices,
      indices  |-> merged.indices,
      normals  |-> merged.normals,
      colors   |-> merged.colors,
      bounds   |-> bounding_box(merged),
      elements |-> elements ]

\* if meshes.is_empty() { default shell }; merge_meshes(meshes)
finish_meshes(acc) ==
    ModelMesh_of(merge_meshes(IF acc.meshes = <<>> THEN emit_default_shell(acc, 0).meshes
                                                   ELSE acc.meshes),
                 IF acc.meshes = <<>> THEN emit_default_shell(acc, 0).elements
                                      ELSE acc.elements)

\* BimModel::generate_meshes
generate_meshes(model) == finish_meshes(emit_vectors(NoMeshes, model, MeshKinds, {}, None))

\* if meshes.is_empty() { default shell without the hidden types }; merge_meshes(meshes)
finish_meshes_filtered(acc, hidden_types, selected_id) ==
    ModelMesh_of(
        merge_meshes(IF acc.meshes = <<>>
                        THEN emit_default_shell_filtered(acc, 0, hidden_types, selected_id).meshes
                        ELSE acc.meshes),
        IF acc.meshes = <<>>
           THEN emit_default_shell_filtered(acc, 0, hidden_types, selected_id).elements
           ELSE acc.elements)

\* BimModel::generate_meshes_filtered
generate_meshes_filtered(model, hidden_types, selected_id) ==
    finish_meshes_filtered(emit_vectors(NoMeshes, model, FilteredKinds, hidden_types, selected_id),
                           hidden_types, selected_id)

(***************************************************************************)
(* Specification of the mesh synthesis: both functions applied to models   *)
(* of at most MaxWalls walls, a slab, a door and a roof, under every set   *)
(* of hidden types and a choice of selected ids.                           *)
(***************************************************************************)
\* most walls in a model
MaxWalls == 2

\* an element with the given id; the odd ones are unnamed
Element(id, height, width) ==
    [ product |-> [ id        |-> id,
                    global_id |-> "g" \o ToString(id),
                    name      |-> IF id % 2 = 1 THEN None ELSE Some("n" \o ToString(id)) ],
      overall_height |-> height,
      overall_width  |-> width ]

\* a model without elements, as the mesh synthesis sees it
EmptyMeshModel == [k \in {MeshKinds[i] : i \in 1..Len(MeshKinds)} |-> <<>>]

\* the entity ids of the slabs, doors and roofs of the models under test
ElementIds == [slab |-> 11, door |-> 12, roof |-> 13]
SlabId == ElementIds.slab
DoorId == ElementIds.door
RoofId == ElementIds.roof

\* the model of w walls (ids 1..w), s slabs, d doors and r roofs
MeshModel(w, s, d, r) ==
    [EmptyMeshModel EXCEPT
        !["walls"] = [i \in 1..w |-> Element(i, None, None)],
        !["slabs"] = [i \in 1..s |-> Element(SlabId, None, None)],
        !["doors"] = [i \in 1..d |-> Element(DoorId, Some(2000), None)],
        !["roofs"] = [i \in 1..r |-> Element(RoofId, None, None)]]

MeshModels == {MeshModel(w, s, d, r) : w \in 0..MaxWalls, s \in 0..1, d \in 0..1, r \in 0..1}

\* the type names a caller hides
HiddenTypeSets == SUBSET {"Wall", "Slab", "Door", "Roof"}

\* the ids a caller selects: none, a default-shell id, a wall, the door
SelectedIds == {None, Some(0), Some(1), Some(DoorId)}

InitMesh ==
    /\ ModelRegistry_new
    /\ op = "new" /\ args = <<>> /\ ret = "()"
    /\ iter = IterIdle /\ ApiIdle
    /\ input \in [model : MeshModels, hidden_types : HiddenTypeSets, selected_id : SelectedIds]
    /\ output = None

call_generate_meshes ==
    /\ op = "new"
    /\ input.hidden_types = {} /\ input.selected_id = None
    /\ op' = "generate_meshes"
    /\ output' = generate_meshes(input.model)
    /\ UNCHANGED <<models, primary_model, next_id, args, ret, iter, input, statics, threads>>

call_generate_meshes_filtered ==
    /\ op = "new"
    /\ op' = "generate_meshes_filtered"
    /\ output' = generate_meshes_filtered(input.model, input.hidden_types, input.selected_id)
    /\ UNCHANGED <<models, primary_model, next_id, args, ret, iter, input, statics, threads>>

NextMesh == call_generate_meshes \/ call_generate_meshes_filtered

SpecMesh == InitMesh /\ [][NextMesh]_vars

MeshOps == {"generate_meshes", "generate_meshes_filtered"}

\* the positions of the elements of elems whose element_type is not T
RECURSIVE KeptPositions(_, _, _)
KeptPositions(elems, T, i) ==
    IF i > Len(elems) THEN <<>>
    ELSE (IF elems[i].element_type = T THEN <<>> ELSE <<i>>) \o KeptPositions(elems, T, i + 1)

\* the blocks of width entries of buf at the positions idxs, from the j-th
\* position on; each entry is moved by shift for every place its block moved
RECURSIVE GatherBlocks(_, _, _, _, _)
GatherBlocks(buf, idxs, width, j, shift) ==
    IF j > Len(idxs) THEN <<>>
    ELSE [k \in 1..width |-> buf[(idxs[j] - 1) * width + k] + shift * (j - idxs[j])]
            \o GatherBlocks(buf, idxs, width, j + 1, shift)

\* the sum of triangle_count of the first n elements
RECURSIVE TrianglesBefore(_, _)
TrianglesBefore(elems, n) ==
    IF n = 0 THEN 0 ELSE TrianglesBefore(elems, n - 1) + elems[n].triangle_count

\* the elements of elems at the positions idxs, triangle ranges re-based
RebasedElements(elems, idxs) ==
    [j \in 1..Len(idxs) |->
        [elems[idxs[j]] EXCEPT
            !.triangle_start = TrianglesBefore([k \in 1..Len(idxs) |-> elems[idxs[k]]], j - 1)]]

\* the result for hidden_types = {T} is the result for no hidden type
\* without the entries of type T
SameWithoutType(hidden, plain, T) ==
    /\ hidden.elements = RebasedElements(plain.elements, KeptPositions(plain.elements, T, 1))
    /\ hidden.vertices = GatherBlocks(plain.vertices, KeptPositions(plain.elements, T, 1), 72, 1, 0)
    /\ hidden.normals = GatherBlocks(plain.normals, KeptPositions(plain.elements, T, 1), 72, 1, 0)
    /\ hidden.colors = GatherBlocks(plain.colors, KeptPositions(plain.elements, T, 1), 96, 1, 0)
    /\ hidden.indices = GatherBlocks(plain.indices, KeptPositions(plain.elements, T, 1), 36, 1, 24)

\* C13 hiding one element type T in generate_meshes_filtered removes exactly
\* the elements of type T: elements and buffers are those of the run without
\* hidden types minus the entries of type T, triangle ranges re-based
HidingRemovesExactlyThatType ==
    (op = "generate_meshes_filtered") =>
        \A T \in input.hidden_types :
            input.hidden_types = {T} =>
                SameWithoutType(output,
                                generate_meshes_filtered(input.model, {}, input.selected_id), T)

\* C14 mesh synthesis never returns an empty mesh: whatever the model, the
\* hidden types and the selected id, the result holds at least one element
MeshNeverEmpty ==
    (op \in MeshOps) =>
        /\ Len(output.elements) >= 1
        /\ output.vertices # <<>>

\* C15 the triangle ranges of the elements are contiguous in emission
\* order: each starts where the previous ones end, the first at 0, and
\* together they cover the triangles of the merged mesh
TriangleRangesContiguous ==
    (op \in MeshOps) =>
        /\ \A i \in 1..Len(output.elements) :
              output.elements[i].triangle_start = TrianglesBefore(output.elements, i - 1)
        /\ TrianglesBefore(output.elements, Len(output.elements)) = Len(output.indices) \div 3
        /\ Len(output.indices) % 3 = 0

\* C15 witness: a mesh of a wall, a slab and a door, the door starting at
\* triangle 24
ThreeElementsEmittedState ==
    /\ op = "generate_meshes_filtered"
    /\ Len(output.elements) = 3
    /\ output.elements[3].id = DoorId
    /\ output.elements[3].triangle_start = 24
    /\ output.elements[3].triangle_count = 12

\* C16 a mesh of k elements has 24k vertices in each of the vertex, normal
\* and colour arrays and 36k indices, every index is below the vertex count
\* and the indices of the i-th element (from 0) lie in 24i..24i+23
BuffersAgreeAndIndicesRebased ==
    (op \in MeshOps) =>
        /\ Len(output.vertices) = 3 * 24 * Len(output.elements)
        /\ Len(output.normals) = 3 * 24 * Len(output.elements)
        /\ Len(output.colors) = 4 * 24 * Len(output.elements)
        /\ Len(output.indices) = 36 * Len(output.elements)
        /\ \A k \in 1..Len(output.indices) :
              /\ output.indices[k] >= 0
              /\ output.indices[k] < Len(output.vertices) \div 3
        /\ \A i \in 1..Len(output.elements) :
              \A t \in 1..(3 * output.elements[i].triangle_count) :
                 /\ output.indices[3 * output.elements[i].triangle_start + t] >= 24 * (i - 1)
                 /\ output.indices[3 * output.elements[i].triangle_start + t] <= 24 * (i - 1) + 23

\* C16 witness: generate_meshes merged the boxes of two walls and a roof;
\* the last index of the roof points at vertex 68
ThreeBoxesMergedState ==
    /\ op = "generate_meshes"
    /\ Len(output.elements) = 3
    /\ output.elements[3].id = RoofId
    /\ Len(output.vertices) = 216
    /\ output.indices[108] = 68

\* the colour of the v-th vertex (from 1) of a mesh
VertexColor(mesh, v) == SubSeq(mesh.colors, 4 * (v - 1) + 1, 4 * v)

\* C17 highlighting changes colours only: vertices, normals, indices, bounds
\* and elements are those of the run without a selected id, and the colours
\* differ only on the elements whose id is the selected one, whose vertices
\* all carry the highlight colour
HighlightChangesColoursOnly ==
    (op = "generate_meshes_filtered" /\ input.selected_id # None) =>
        /\ output.vertices =
              generate_meshes_filtered(input.model, input.hidden_types, None).vertices
        /\ output.normals =
              generate_meshes_filtered(input.model, input.hidden_types, None).normals
        /\ output.indices =
              generate_meshes_filtered(input.model, input.hidden_types, None).indices
        /\ output.bounds =
              generate_meshes_filtered(input.model, input.hidden_types, None).bounds
        /\ output.elements =
              generate_meshes_filtered(input.model, input.hidden_types, None).elements
        /\ Len(output.colors) =
              Len(generate_meshes_filtered(input.model, input.hidden_types, None).colors)
        /\ \A i \in 1..Len(output.elements) :
              \A v \in (24 * (i - 1) + 1)..(24 * i) :
                 VertexColor(output, v) =
                    IF output.elements[i].id = input.selected_id[1]
                       THEN highlight_color
                       ELSE VertexColor(generate_meshes_filtered(input.model,
                                            input.hidden_types, None), v)

\* C17 witness: wall 1 was selected among two walls; its vertices carry the
\* highlight colour and those of wall 2 the wall colour
HighlightedFirstWallState ==
    /\ op = "generate_meshes_filtered"
    /\ input.selected_id = Some(1)
    /\ Len(output.elements) >= 2
    /\ output.elements[1].id = 1
    /\ VertexColor(output, 24) = highlight_color
    /\ VertexColor(output, 25) = color_for_element_type("WALL")

(***************************************************************************)
(* Ray casting (renderer/camera.rs).  An f32 is [k, v]: a finite value v   *)
(* (k = "fin"), an infinity of sign v (k = "inf") or a NaN (k = "nan"),    *)
(* so that 1.0 / 0.0 and 0.0 * inf are what IEEE 754 makes of them.        *)
(***************************************************************************)
Fin(n) == [k |-> "fin", v |-> n]
Inf(sign) == [k |-> "inf", v |-> sign]
NaN == [k |-> "nan", v |-> 0]

Sign(n) == IF n > 0 THEN 1 ELSE IF n < 0 THEN -1 ELSE 0

\* 1.0 / d for a direction component d of -1, 0 or 1
ieee_recip(d) == IF d = 0 THEN Inf(1) ELSE Fin(d)

\* a * b for a finite a and b = 1.0 / d
ieee_mul(a, b) ==
    IF b.k = "fin" THEN Fin(a * b.v)
    ELSE IF a = 0 THEN NaN
    ELSE Inf(Sign(a) * b.v)

\* a < b on f32: false when either is a NaN
ieee_lt(a, b) ==
    /\ a.k # "nan" /\ b.k # "nan"
    /\ CASE a.k = "fin" /\ b.k = "fin" -> a.v < b.v
          [] a.k = "fin" /\ b.k = "inf" -> b.v > 0
          [] a.k = "inf" /\ b.k = "fin" -> a.v < 0
          [] a.k = "inf" /\ b.k = "inf" -> a.v < b.v

\* f32::min: a NaN operand is ignored
ieee_min(a, b) ==
    IF a.k = "nan" THEN b
    ELSE IF b.k = "nan" THEN a
    ELSE IF ieee_lt(b, a) THEN b ELSE a

\* f32::max: a NaN operand is ignored
ieee_max(a, b) ==
    IF a.k = "nan" THEN b
    ELSE IF b.k = "nan" THEN a
    ELSE IF ieee_lt(a, b) THEN b ELSE a

\* t1..t6 of ray_aabb_intersect: the distance to the plane at the given
\* coordinate of the given axis
plane_t(ray_origin, ray_dir, plane, axis) ==
    ieee_mul(plane - ray_origin[axis], ieee_recip(ray_dir[axis]))

\* t1.min(t2).max(t3.min(t4)).max(t5.min(t6))
ray_tmin(o, d, box_min, box_max) ==
    ieee_max(ieee_max(ieee_min(plane_t(o, d, box_min[1], 1), plane_t(o, d, box_max[1], 1)),
                      ieee_min(plane_t(o, d, box_min[2], 2), plane_t(o, d, box_max[2], 2))),
             ieee_min(plane_t(o, d, box_min[3], 3), plane_t(o, d, box_max[3], 3)))

\* t1.max(t2).min(t3.max(t4)).min(t5.max(t6))
ray_tmax(o, d, box_min, box_max) ==
    ieee_min(ieee_min(ieee_max(plane_t(o, d, box_min[1], 1), plane_t(o, d, box_max[1], 1)),
                      ieee_max(plane_t(o, d, box_min[2], 2), plane_t(o, d, box_max[2], 2))),
             ieee_max(plane_t(o, d, box_min[3], 3), plane_t(o, d, box_max[3], 3)))

\* if tmax < 0.0 || tmin > tmax { None } else { Some(if tmin < 0.0 { tmax } else { tmin }) }
ray_result(tmin, tmax) ==
    IF ieee_lt(tmax, Fin(0)) \/ ieee_lt(tmax, tmin)
       THEN None
       ELSE Some(IF ieee_lt(tmin, Fin(0)) THEN tmax ELSE tmin)

\* ray_aabb_intersect(ray_origin, ray_dir, box_min, box_max)
ray_aabb_intersect(ray_origin, ray_dir, box_min, box_max) ==
    ray_result(ray_tmin(ray_origin, ray_dir, box_min, box_max),
               ray_tmax(ray_origin, ray_dir, box_min, box_max))

(***************************************************************************)
(* Specification of the ray-box test: ray_aabb_intersect applied to the    *)
(* axis-parallel unit rays from the integer points of a cube, and from the *)
(* point (0,0,-10), against two boxes.                                     *)
(***************************************************************************)
\* the origins have coordinates in -RayRange..RayRange
RayRange == 2

RayOrigins ==
    {<<x, y, z>> : x \in -RayRange..RayRange, y \in -RayRange..RayRange,
                   z \in -RayRange..RayRange}
       \cup {<<0, 0, -10>>}

\* the axis-parallel unit directions
RayDirections ==
    {<<1, 0, 0>>, <<-1, 0, 0>>, <<0, 1, 0>>, <<0, -1, 0>>, <<0, 0, 1>>, <<0, 0, -1>>}

RayBoxes ==
    { [min |-> <<-1, -1, -1>>, max |-> <<1, 1, 1>>],
      [min |-> <<5, 5, 5>>, max |-> <<6, 6, 6>>] }

InitRay ==
    /\ ModelRegistry_new
    /\ op = "new" /\ args = <<>> /\ ret = "()"
    /\ iter = IterIdle /\ ApiIdle
    /\ input \in [origin : RayOrigins, dir : RayDirections, box : RayBoxes]
    /\ output = None

call_ray_aabb_intersect ==
    /\ op = "new"
    /\ op' = "ray_aabb_intersect"
    /\ output' = ray_aabb_intersect(input.origin, input.dir, input.box.min, input.box.max)
    /\ UNCHANGED <<models, primary_model, next_id, args, ret, iter, input, statics, threads>>

NextRay == call_ray_aabb_intersect

SpecRay == InitRay /\ [][NextRay]_vars

\* the distances t, negative ones included, at which the point
\* origin + t * dir lies in the box (its faces included); t ranges over the
\* integers up to the far side of the farthest box
LineDistances(origin, dir, box) ==
    {t \in -32..32 : \A a \in 1..3 :
        /\ box.min[a] <= origin[a] + t * dir[a]
        /\ origin[a] + t * dir[a] <= box.max[a]}

\* C19 ray_aabb_intersect returns None when the line misses the box or the
\* box lies behind the origin; otherwise the entry distance when it is not
\* negative, and the exit distance when the origin is inside the box
RayHitIsNearestBoundary ==
    (op = "ray_aabb_intersect") =>
        IF \A t \in LineDistances(input.origin, input.dir, input.box) : t < 0
           THEN output = None
           ELSE output =
                   Some(Fin(IF Least(LineDistances(input.origin, input.dir, input.box)) >= 0
                               THEN Least(LineDistances(input.origin, input.dir, input.box))
                               ELSE Greatest(LineDistances(input.origin, input.dir, input.box))))

(***************************************************************************)
(* Element picking (api.rs): pick_element over the visible models of the   *)
(* registry.  The ray that Camera::screen_to_ray returns for the screen    *)
(* point, the order in which the HashMap yields the visible models and     *)
(* whether the renderer exists are inputs of the call.                     *)
(***************************************************************************)
\* variant: an element at the same distance replaces the candidate
replaces_closest_on_tie(t, closest) == closest = None \/ ~ieee_lt(closest[1].t, t)

\* match &closest: None, or Some((closest_t, _)) if t < *closest_t
replaces_closest(t, closest) == closest = None \/ ieee_lt(t, closest[1].t)

\* if let Some(t) = ray_aabb_intersect(..) { match &closest .. }
consider_hit(closest, element, hit) ==
    IF hit # None /\ replaces_closest(hit[1], closest)
       THEN Some([t |-> hit[1], element |-> element])
       ELSE closest

\* for element in &mesh.elements, from the i-th element (from 1) on
RECURSIVE pick_in_elements(_, _, _, _)
pick_in_elements(closest, elements, i, ray) ==
    IF i > Len(elements) THEN closest
    ELSE pick_in_elements(
            consider_hit(closest, elements[i],
                         ray_aabb_intersect(ray.origin, ray.dir,
                                            elements[i].bounds.min, elements[i].bounds.max)),
            elements, i + 1, ray)

\* for (_model_id, reg_model) in registry.iter_visible(), in the order the
\* map yields them, from the j-th model (from 1) on
RECURSIVE pick_in_models(_, _, _, _)
pick_in_models(closest, order, j, ray) ==
    IF j > Len(order) THEN closest
    ELSE pick_in_models(
            pick_in_elements(closest, generate_meshes(models[order[j]].model).elements, 1, ray),
            order, j + 1, ray)

\* closest.map(|(_, e)| e)
closest_element(closest) == IF closest = None THEN None ELSE Some(closest[1].element)

\* the orders in which a HashMap may yield the given keys
IterationOrders(keys) ==
    {o \in [1..Cardinality(keys) -> keys] : \A i, j \in 1..Cardinality(keys) : o[i] = o[j] => i = j}

\* pub fn pick_element(screen_x, screen_y)
pick_element(renderer, ray, order) ==
    /\ op' = "pick_element"
    /\ args' = <<>>
    /\ input' = [renderer |-> renderer, ray |-> ray, order |-> order]
    /\ IF is_empty
          THEN ret' = "Err(No model loaded)" /\ output' = None
          ELSE IF ~renderer
                  THEN ret' = "Err(Renderer not initialized)" /\ output' = None
                  ELSE /\ ret' = "Ok"
                       /\ output' = closest_element(pick_in_models(None, order, 1, ray))
    /\ UNCHANGED <<registry, iter, statics, threads>>

(***************************************************************************)
(* Specification of picking: registries of at most MaxModels models, each  *)
(* visible or hidden, picked with axis-parallel rays.                      *)
(***************************************************************************)
\* the models in the registry: the default shell, one wall, two walls
PickModels == {MeshModel(0, 0, 0, 0), MeshModel(1, 0, 0, 0), MeshModel(2, 0, 0, 0)}

\* a ray that meets the first wall, and the floor and the back wall of the
\* default shell at one distance; a ray that meets the second wall from the
\* other side; a ray that leaves every box behind
PickRays ==
    { [origin |-> <<0, 100, -10000>>, dir |-> <<0, 0, 1>>],
      [origin |-> <<3000, 1500, 10000>>, dir |-> <<0, 0, -1>>],
      [origin |-> <<0, 20000, 0>>, dir |-> <<0, 1, 0>>] }

InitPick ==
    /\ \E n \in 0..MaxModels :
          /\ models \in [{FormatId(k) : k \in 1..n} ->
                           { [RegisteredModel_new(m, "Model", None) EXCEPT !.visible = v] :
                                m \in PickModels, v \in BOOLEAN }]
          /\ primary_model = IF n = 0 THEN None ELSE Some(FormatId(1))
          /\ next_id = n + 1
    /\ op = "new" /\ args = <<>> /\ ret = "()"
    /\ Idle

NextPick ==
    \E rn \in BOOLEAN, ray \in PickRays, order \in IterationOrders(iter_visible) :
        pick_element(rn, ray, order)

SpecPick == InitPick /\ [][NextPick]_vars

\* the elements pick_element visits, in its order, from the j-th model on
RECURSIVE VisitedElements(_, _)
VisitedElements(order, j) ==
    IF j > Len(order) THEN <<>>
    ELSE generate_meshes(models[order[j]].model).elements \o VisitedElements(order, j + 1)

\* the hit of the ray of the last call on an element
HitOf(element) ==
    ray_aabb_intersect(input.ray.origin, input.ray.dir, element.bounds.min, element.bounds.max)

\* the hit distances of a sequence of elements, None where the ray misses
HitsOf(visited) == [i \in 1..Len(visited) |-> HitOf(visited[i])]

\* the elements of the visible models of the registry, in the order given
VisibleElements(order) ==
    VisitedElements(order, 1)

\* the positions of the hits of least distance
NearestPositions(hits) ==
    {i \in DOMAIN hits :
        /\ hits[i] # None
        /\ \A j \in DOMAIN hits : hits[j] # None => hits[i][1].v <= hits[j][1].v}

\* the answer the claim gives for the elements visited and their hits
NearestVisited(visited, nearest) ==
    IF nearest = {} THEN None ELSE Some(visited[Least(nearest)])

\* C18 pick_element returns Err on an empty registry; otherwise it visits
\* the elements of the visible models only, each of them, and returns None
\* when the ray hits none of them, else the element of least hit distance,
\* the first one visited among those at that distance
PickReturnsNearestVisible ==
    (op = "pick_element") =>
        /\ is_empty => ret = "Err(No model loaded)"
        /\ ret = "Ok" =>
              /\ {input.order[j] : j \in 1..Len(input.order)}
                    = {id \in DOMAIN models : models[id].visible}
              /\ output = NearestVisited(VisibleElements(input.order),
                                         NearestPositions(HitsOf(VisibleElements(input.order))))

\* C18 witness: the ray meets the back wall of a hidden default shell before
\* the wall of the visible model, and the wall was picked
PickedBehindHiddenModelState ==
    /\ op = "pick_element" /\ ret = "Ok"
    /\ input.ray.dir = <<0, 0, 1>>
    /\ \E id \in DOMAIN models :
          ~models[id].visible /\ models[id].model = MeshModel(0, 0, 0, 0)
    /\ output # None
    /\ output[1].id = 1
    /\ output[1].element_type = "Wall"
    /\ HitOf(output[1]) = Some(Fin(9900))

(***************************************************************************)
(* Extraction of the typed element records from the entities of a parsed   *)
(* file.  A Vec of records is kept as the set of its records: its order is *)
(* the iteration order of the entity map.                                  *)
(***************************************************************************)
IFCWINDOW ==
    << "I", "F", "C", "W", "I", "N", "D", "O", "W" >>

\* IfcEntity::get_attr: the attribute at an index counted from 0
get_attr(e, index) ==
    IF index < Len(e.attributes) THEN Some(e.attributes[index + 1]) ELSE None

\* variant: an enumeration token is taken for a string
get_string_or_enum(e, index) ==
    IF get_attr(e, index) = None THEN None
    ELSE IF get_attr(e, index)[1].kind \in {"String", "Enum"}
            THEN Some(get_attr(e, index)[1].v)
    ELSE None

\* IfcEntity::get_string
get_string(e, index) ==
    IF get_attr(e, index) = None THEN None
    ELSE IF get_attr(e, index)[1].kind = "String" THEN Some(get_attr(e, index)[1].v)
    ELSE None

\* IfcEntity::get_real: an Integer is widened to f64
get_real(e, index) ==
    IF get_attr(e, index) = None THEN None
    ELSE IF get_attr(e, index)[1].kind = "Real" THEN Some(get_attr(e, index)[1].v)
    ELSE IF get_attr(e, index)[1].kind = "Integer"
            THEN Some([mant |-> get_attr(e, index)[1].v, exp |-> 0])
    ELSE None

\* Option<String>::unwrap_or_default
unwrap_or_default(opt) == IF opt = None THEN <<>> ELSE opt[1]

\* the IfcProduct every extract_* closure builds
IfcProduct_of(e) ==
    [ id          |-> e.id,
      global_id   |-> unwrap_or_default(get_string(e, 0)),
      name        |-> get_string(e, 2),
      description |-> get_string(e, 3),
      object_type |-> get_string(e, 4),
      properties  |-> {} ]

\* the records of walls and slabs
IfcWall_of(e) == [product |-> IfcProduct_of(e), predefined_type |-> None]

\* the records of doors and windows
IfcDoor_of(e) ==
    [ product        |-> IfcProduct_of(e),
      overall_height |-> get_real(e, 5),
      overall_width  |-> get_real(e, 6) ]

extract_walls(ifc_file) ==
    {IfcWall_of(ifc_file.entities[id]) : id \in get_entities_by_type(ifc_file, IFCWALL)}

extract_slabs(ifc_file) ==
    {IfcWall_of(ifc_file.entities[id]) : id \in get_entities_by_type(ifc_file, IFCSLAB)}

extract_doors(ifc_file) ==
    {IfcDoor_of(ifc_file.entities[id]) : id \in get_entities_by_type(ifc_file, IFCDOOR)}

extract_windows(ifc_file) ==
    {IfcDoor_of(ifc_file.entities[id]) : id \in get_entities_by_type(ifc_file, IFCWINDOW)}

\* the sum of the lengths of the element vectors
element_count_of(model) ==
    [model EXCEPT !.element_count =
        Cardinality(model.walls) + Cardinality(model.slabs)
            + Cardinality(model.doors) + Cardinality(model.windows)]

\* BimModel::from_ifc_file with the records of the walls, slabs, doors and
\* windows; no step of it fails, it ends in Ok(model)
from_ifc_file_elements(ifc_file) ==
    [ ok  |-> TRUE,
      val |-> element_count_of([ walls         |-> extract_walls(ifc_file),
                                 slabs         |-> extract_slabs(ifc_file),
                                 doors         |-> extract_doors(ifc_file),
                                 windows       |-> extract_windows(ifc_file),
                                 element_count |-> 0 ]) ]

(***************************************************************************)
(* Extraction specification: from_ifc_file is applied to a parsed file of  *)
(* at most MaxEntities entities, whose attribute lists are a complete list *)
(* cut short, with one attribute replaced, or both.                        *)
(***************************************************************************)
\* most entities in a parsed file
MaxEntities == 2

StringValue(c) == [kind |-> "String", v |-> <<c>>]
RealValue(m, x) == [kind |-> "Real", v |-> [mant |-> m, exp |-> x]]
NullValue == [kind |-> "Null", v |-> 0]

\* GlobalId, OwnerHistory, Name, Description, ObjectType, OverallHeight,
\* OverallWidth
CompleteAttributes ==
    << StringValue("g"), NullValue, StringValue("n"), StringValue("d"),
       StringValue("t"), RealValue(21, -1), RealValue(9, -1) >>

\* the values put in the place of an attribute
ReplacementValues ==
    << NullValue, StringValue("x"), [kind |-> "Integer", v |-> 3],
       [kind |-> "Enum", v |-> <<"E">>], [kind |-> "List", v |-> <<>>] >>

\* the complete list with the i-th attribute replaced, cut after n attributes
AttributesOf(i, w, n) ==
    SubSeq([CompleteAttributes EXCEPT ![i] = ReplacementValues[w]], 1, n)

SupportedTypes == {IFCWALL, IFCSLAB, IFCDOOR, IFCWINDOW}

\* the further entities of a file: complete ones and ones without attributes
OtherEntities ==
    << [entity_type |-> IFCWALL, attributes |-> CompleteAttributes],
       [entity_type |-> IFCDOOR, attributes |-> CompleteAttributes],
       [entity_type |-> IFCWALL, attributes |-> <<>>],
       [entity_type |-> IFCDOOR, attributes |-> <<>>] >>

EntityOf(id, e) == [id |-> id, entity_type |-> e.entity_type, attributes |-> e.attributes]

\* a parsed file of n entities: the first is the given one, the further ones
\* are of OtherEntities
ExtractFile(n, first, others) ==
    [ header   |-> <<>>,
      entities |-> [id \in 1..n |->
                      EntityOf(id, IF id = 1 THEN first ELSE OtherEntities[others[id]])] ]

InitExtract ==
    /\ ModelRegistry_new
    /\ op = "new" /\ args = <<>> /\ ret = "()"
    /\ iter = IterIdle /\ ApiIdle
    /\ \E n \in 0..MaxEntities, ty \in SupportedTypes,
          i \in 1..Len(CompleteAttributes), w \in 1..Len(ReplacementValues),
          len \in 0..Len(CompleteAttributes),
          others \in [2..MaxEntities -> 1..Len(OtherEntities)] :
          input = ExtractFile(n, [entity_type |-> ty, attributes |-> AttributesOf(i, w, len)],
                              others)
    /\ output = None

call_from_ifc_file ==
    /\ op = "new"
    /\ op' = "from_ifc_file"
    /\ output' = Some(from_ifc_file_elements(input))
    /\ UNCHANGED <<models, primary_model, next_id, args, ret, iter, input, statics, threads>>

NextExtract == call_from_ifc_file

SpecExtract == InitExtract /\ [][NextExtract]_vars

\* the ids of the entities of a parsed file whose type is the keyword,
\* whatever the case
IdsOfType(ifc_file, keyword) ==
    {k \in DOMAIN ifc_file.entities :
        to_uppercase(ifc_file.entities[k].entity_type) = keyword}

\* the attribute at an index is there and of one of the kinds
HasKind(e, index, kinds) ==
    index + 1 <= Len(e.attributes) /\ e.attributes[index + 1].kind \in kinds

\* a product record decodes the entity best-effort: the empty string or None
\* for an attribute that is missing or not a string
ProductDecodes(e, p) ==
    /\ p.id = e.id
    /\ ~HasKind(e, 0, {"String"}) => p.global_id = <<>>
    /\ HasKind(e, 0, {"String"}) => p.global_id = e.attributes[1].v
    /\ \A i \in {2, 3, 4} :
          LET field == IF i = 2 THEN p.name
                       ELSE IF i = 3 THEN p.description ELSE p.object_type
          IN  /\ ~HasKind(e, i, {"String"}) => field = None
              /\ HasKind(e, i, {"String"}) => field = Some(e.attributes[i + 1].v)

\* a door or window record decodes the entity best-effort
DoorDecodes(e, d) ==
    /\ ProductDecodes(e, d.product)
    /\ ~HasKind(e, 5, {"Real", "Integer"}) => d.overall_height = None
    /\ HasKind(e, 5, {"Real", "Integer"}) => d.overall_height # None
    /\ ~HasKind(e, 6, {"Real", "Integer"}) => d.overall_width = None
    /\ HasKind(e, 6, {"Real", "Integer"}) => d.overall_width # None

\* the file that holds one entity only
FileOfEntity(e) == [header |-> <<>>, entities |-> [id \in {e.id} |-> e]]

\* every entity of the type has exactly one record in the vector, decoded as
\* the claim says, and the same record as when it is alone in the file
VectorDecodes(ifc_file, keyword, vector, alone(_), Decodes(_, _)) ==
    /\ Cardinality(vector) = Cardinality(IdsOfType(ifc_file, keyword))
    /\ \A id \in IdsOfType(ifc_file, keyword) :
          \E r \in vector :
             /\ r.product.id = id
             /\ Decodes(ifc_file.entities[id], r)
             /\ alone(FileOfEntity(ifc_file.entities[id])) = {r}

WallDecodes(e, w) == ProductDecodes(e, w.product) /\ w.predefined_type = None

\* C20 from_ifc_file returns Ok for every parsed file; every wall, slab, door
\* and window of the file has its record, in which global_id is the empty
\* string and an optional field is None when the attribute at its index (0,
\* 2, 3, 4, and 5, 6 for doors and windows) is missing or of the wrong kind,
\* and the record of an entity does not depend on the other entities
ExtractionIsBestEffort ==
    (op = "from_ifc_file") =>
        /\ output[1].ok
        /\ VectorDecodes(input, IFCWALL, output[1].val.walls, extract_walls, WallDecodes)
        /\ VectorDecodes(input, IFCSLAB, output[1].val.slabs, extract_slabs, WallDecodes)
        /\ VectorDecodes(input, IFCDOOR, output[1].val.doors, extract_doors, DoorDecodes)
        /\ VectorDecodes(input, IFCWINDOW, output[1].val.windows, extract_windows, DoorDecodes)
        /\ output[1].val.element_count = Cardinality(DOMAIN input.entities)

\* C20 witness: a door whose GlobalId is an integer and whose attribute list
\* ends before OverallWidth was extracted next to a complete wall
DoorWithBadAttributesExtractedState ==
    /\ op = "from_ifc_file"
    /\ Cardinality(DOMAIN input.entities) = 2
    /\ input.entities[1].entity_type = IFCDOOR
    /\ Len(input.entities[1].attributes) = 6
    /\ input.entities[1].attributes[1].kind = "Integer"
    /\ \E d \in output[1].val.doors :
          /\ d.product.id = 1
          /\ d.product.global_id = <<>>
          /\ d.product.name = Some(<<"n">>)
          /\ d.overall_height # None
          /\ d.overall_width = None
    /\ \E w \in output[1].val.walls :
          w.product.id = 2 /\ w.product.global_id = <<"g">>

\* C26 with no hidden type and no selected id, generate_meshes_filtered
\* returns the mesh generate_meshes returns for the same model: the same
\* elements in the same order with the same labels, the same buffers and
\* bounds
FilteredWithoutFilterIsUnfiltered ==
    (op = "generate_meshes_filtered" /\ input.hidden_types = {} /\ input.selected_id = None)
        => output = generate_meshes(input.model)

(***************************************************************************)
(* BimModel::from_ifc_file as a whole.  The entity map is iterated in an   *)
(* order the caller cannot choose: `order` lists the entity ids in the     *)
(* order in which the map yields them, the same in every extract_* call    *)
(* since the map is not written in between.  A Vec is the sequence of its  *)
(* records.  Grid coordinates are in thirds of a thousandth, so that the   *)
(* division by 3.0 of the default grid is exact; the rounding of f32 is    *)
(* left out.                                                               *)
(***************************************************************************)
\* the type keyword each extract_* hands to get_entities_by_type
KindKeyword ==
    [
      walls          |-> << "I", "F", "C", "W", "A", "L", "L" >>,
      slabs          |-> << "I", "F", "C", "S", "L", "A", "B" >>,
      columns        |-> << "I", "F", "C", "C", "O", "L", "U", "M", "N" >>,
      beams          |-> << "I", "F", "C", "B", "E", "A", "M" >>,
      doors          |-> << "I", "F", "C", "D", "O", "O", "R" >>,
      windows        |-> << "I", "F", "C", "W", "I", "N", "D", "O", "W" >>,
      roofs          |-> << "I", "F", "C", "R", "O", "O", "F" >>,
      stairs         |-> << "I", "F", "C", "S", "T", "A", "I", "R" >>,
      footings       |-> << "I", "F", "C", "F", "O", "O", "T", "I", "N", "G" >>,
      pipes          |-> << "I", "F", "C", "P", "I", "P", "E", "S", "E", "G", "M", "E", "N", "T" >>,
      ducts          |-> << "I", "F", "C", "D", "U", "C", "T", "S", "E", "G", "M", "E", "N", "T" >>,
      flow_terminals |-> << "I", "F", "C", "F", "L", "O", "W", "T", "E", "R", "M", "I", "N", "A",
                          "L" >>,
      cable_carriers |-> << "I", "F", "C", "C", "A", "B", "L", "E", "C", "A", "R", "R", "I", "E",
                          "R", "S", "E", "G", "M", "E", "N", "T" >>,
      proxies        |-> << "I", "F", "C", "B", "U", "I", "L", "D", "I", "N", "G", "E", "L", "E",
                          "M", "E", "N", "T", "P", "R", "O", "X", "Y" >> ]

IFCPROJECT ==
    << "I", "F", "C", "P", "R", "O", "J", "E", "C", "T" >>

IFCSITE ==
    << "I", "F", "C", "S", "I", "T", "E" >>

IFCBUILDING ==
    << "I", "F", "C", "B", "U", "I", "L", "D", "I", "N", "G" >>

IFCBUILDINGSTOREY ==
    << "I", "F", "C", "B", "U", "I", "L", "D", "I", "N", "G", "S", "T", "O",
       "R", "E", "Y" >>

IFCGRID ==
    << "I", "F", "C", "G", "R", "I", "D" >>

IFCGRIDAXIS ==
    << "I", "F", "C", "G", "R", "I", "D", "A", "X", "I", "S" >>

\* get_entities_by_type(..).into_iter(): the entities of the type in the
\* order of the map
entities_in_order(ifc_file, order, entity_type) ==
    [ i \in 1..Len(SelectSeq(order, LAMBDA id : id \in get_entities_by_type(ifc_file, entity_type)))
        |-> ifc_file.entities[
               SelectSeq(order, LAMBDA id : id \in get_entities_by_type(ifc_file, entity_type))[i]] ]

\* IfcEntity::get_entity_ref
get_entity_ref(e, index) ==
    IF get_attr(e, index) = None THEN None
    ELSE IF get_attr(e, index)[1].kind = "EntityRef" THEN Some(get_attr(e, index)[1].v)
    ELSE None

\* IfcEntity::get_list
get_list(e, index) ==
    IF get_attr(e, index) = None THEN None
    ELSE IF get_attr(e, index)[1].kind = "List" THEN Some(get_attr(e, index)[1].v)
    ELSE None

\* e.get_list(i).map(|list| the ids of its entity references).unwrap_or_default()
axes_of(list) ==
    IF list = None THEN {}
    ELSE {list[1][i].v : i \in {k \in 1..Len(list[1]) : list[1][k].kind = "EntityRef"}}

\* extract_project, extract_site, extract_building: the first entity of the
\* type, if any
first_named(es) ==
    IF es = <<>> THEN None
    ELSE Some([ id          |-> es[1].id,
                name        |-> unwrap_or_default(get_string(es[1], 2)),
                description |-> get_string(es[1], 3) ])

IfcBuildingStorey_of(e) ==
    [ id |-> e.id, name |-> unwrap_or_default(get_string(e, 2)), elevation |-> get_real(e, 8) ]

IfcGrid_of(e) ==
    [ id        |-> e.id,
      global_id |-> unwrap_or_default(get_string(e, 0)),
      name      |-> get_string(e, 2),
      u_axes    |-> axes_of(get_list(e, 7)),
      v_axes    |-> axes_of(get_list(e, 8)) ]

\* s.contains("T") || s.contains("TRUE")
contains_T(s) == \E i \in 1..Len(s) : s[i] = "T"

same_sense_of(attr) ==
    IF attr = None THEN TRUE
    ELSE IF attr[1].kind = "Boolean" THEN attr[1].v
    ELSE IF attr[1].kind = "Enum" THEN contains_T(attr[1].v)
    ELSE TRUE

IfcGridAxis_of(e) ==
    [ id         |-> e.id,
      axis_tag   |-> unwrap_or_default(get_string(e, 0)),
      axis_curve |-> get_entity_ref(e, 1),
      same_sense |-> same_sense_of(get_attr(e, 2)) ]

\* the record an extract_* closure builds for an element of a vector
element_of(kind, e) ==
    IF kind \in {"doors", "windows"} THEN IfcDoor_of(e) ELSE IfcWall_of(e)

\* the extract_* of an element vector
extract_kind(ifc_file, order, kind) ==
    [ i \in 1..Len(entities_in_order(ifc_file, order, KindKeyword[kind]))
        |-> element_of(kind, entities_in_order(ifc_file, order, KindKeyword[kind])[i]) ]

extract_storeys(ifc_file, order) ==
    [ i \in 1..Len(entities_in_order(ifc_file, order, IFCBUILDINGSTOREY))
        |-> IfcBuildingStorey_of(entities_in_order(ifc_file, order, IFCBUILDINGSTOREY)[i]) ]

extract_grids(ifc_file, order) ==
    [ i \in 1..Len(entities_in_order(ifc_file, order, IFCGRID))
        |-> IfcGrid_of(entities_in_order(ifc_file, order, IFCGRID)[i]) ]

extract_grid_axes(ifc_file, order) ==
    [ i \in 1..Len(entities_in_order(ifc_file, order, IFCGRIDAXIS))
        |-> IfcGridAxis_of(entities_in_order(ifc_file, order, IFCGRIDAXIS)[i]) ]

RECURSIVE Pow10(_)
Pow10(n) == IF n <= 0 THEN 1 ELSE 10 * Pow10(n - 1)

\* an Option<f64> `as f32`, in thousandths
as_f32(opt) ==
    IF opt = None THEN None
    ELSE IF opt[1].exp + 3 >= 0 THEN Some(opt[1].mant * Pow10(opt[1].exp + 3))
    ELSE Some(opt[1].mant \div Pow10(0 - (opt[1].exp + 3)))

\* the element vectors of a model as the mesh synthesis reads them: the
\* heights and widths of doors and windows in thousandths
mesh_view(model) ==
    [ kind \in {MeshKinds[k] : k \in 1..Len(MeshKinds)} |->
        [ i \in 1..Len(model[kind]) |->
            IF kind \in {"doors", "windows"}
               THEN [ product        |-> model[kind][i].product,
                      overall_height |-> as_f32(model[kind][i].overall_height),
                      overall_width  |-> as_f32(model[kind][i].overall_width) ]
               ELSE model[kind][i] ] ]

\* BimModel::get_bounds
get_bounds(model) == generate_meshes(mesh_view(model)).bounds

\* (min_x, max_x, min_y, max_y) of generate_grid_lines
grid_extent(bounds) ==
    IF bounds # None
       THEN << bounds[1].min[1], bounds[1].max[1], bounds[1].min[2], bounds[1].max[2] >>
       ELSE << -20000, 20000, -20000, 20000 >>

\* let margin = 5.0
grid_margin == 5000

\* let spacing = 6.0
grid_spacing == 6000

\* an f32 coordinate in thirds of a thousandth
Thirds(x) == 3 * x

\* the line of the i-th grid axis (from 0)
axis_line(model, ext, i) ==
    LET axis == model.grid_axes[i + 1]
        is_u_axis == \E g \in 1..Len(model.grids) : axis.id \in model.grids[g].u_axes
        position == i * grid_spacing
    IN  [ tag       |-> axis.axis_tag,
          start     |-> IF is_u_axis
                           THEN << Thirds(ext[1] - grid_margin), Thirds(position), 0 >>
                           ELSE << Thirds(position), Thirds(ext[3] - grid_margin), 0 >>,
          end       |-> IF is_u_axis
                           THEN << Thirds(ext[2] + grid_margin), Thirds(position), 0 >>
                           ELSE << Thirds(position), Thirds(ext[4] + grid_margin), 0 >>,
          is_u_axis |-> is_u_axis ]

labels_x == << <<"A">>, <<"B">>, <<"C">>, <<"D">> >>
labels_y == << <<"1">>, <<"2">>, <<"3">>, <<"4">> >>

\* the default structural grid: four lines in each direction
default_grid(b) ==
    [ i \in 1..Len(labels_x) |->
        [ tag       |-> labels_x[i],
          start     |-> << Thirds(b.min[1]) + (b.max[1] - b.min[1]) * (i - 1),
                           Thirds(b.min[2] - grid_margin), 0 >>,
          end       |-> << Thirds(b.min[1]) + (b.max[1] - b.min[1]) * (i - 1),
                           Thirds(b.max[2] + grid_margin), 0 >>,
          is_u_axis |-> FALSE ] ]
    \o
    [ i \in 1..Len(labels_y) |->
        [ tag       |-> labels_y[i],
          start     |-> << Thirds(b.min[1] - grid_margin),
                           Thirds(b.min[2]) + (b.max[2] - b.min[2]) * (i - 1), 0 >>,
          end       |-> << Thirds(b.max[1] + grid_margin),
                           Thirds(b.min[2]) + (b.max[2] - b.min[2]) * (i - 1), 0 >>,
          is_u_axis |-> TRUE ] ]

\* variant: the default grid follows the lines of the axes
grid_lines_and_default(model, bounds) ==
    [i \in 1..Len(model.grid_axes) |-> axis_line(model, grid_extent(bounds), i - 1)]
        \o (IF bounds # None THEN default_grid(bounds[1]) ELSE <<>>)

\* generate_grid_lines once the bounds are known
grid_lines_of(model, bounds) ==
    IF model.grid_axes # <<>>
       THEN [i \in 1..Len(model.grid_axes) |-> axis_line(model, grid_extent(bounds), i - 1)]
    ELSE IF bounds # None THEN default_grid(bounds[1])
    ELSE <<>>

\* BimModel::generate_grid_lines
generate_grid_lines(model) == grid_lines_of(model, get_bounds(model))

\* model.element_count = the sum of the lengths of fourteen vectors
RECURSIVE sum_of_lengths(_, _)
sum_of_lengths(model, kinds) ==
    IF kinds = <<>> THEN 0 ELSE Len(model[Head(kinds)]) + sum_of_lengths(model, Tail(kinds))

\* variant: the storeys are counted as elements
with_storeys_counted(model) ==
    [model EXCEPT !.element_count = sum_of_lengths(model, MeshKinds) + Len(model.storeys)]

\* from_ifc_file after the extraction: the grid lines, then the count
with_element_count(model) ==
    [model EXCEPT !.element_count = sum_of_lengths(model, MeshKinds)]

with_grid_lines(model) ==
    with_element_count([model EXCEPT !.grid_lines = generate_grid_lines(model)])

\* BimModel::from_ifc_file for the order in which the entity map is iterated
from_ifc_file_in_order(ifc_file, order) ==
    with_grid_lines(
        [ kind \in {MeshKinds[k] : k \in 1..Len(MeshKinds)} |-> extract_kind(ifc_file, order, kind) ]
        @@ [ project       |-> first_named(entities_in_order(ifc_file, order, IFCPROJECT)),
             site          |-> first_named(entities_in_order(ifc_file, order, IFCSITE)),
             building      |-> first_named(entities_in_order(ifc_file, order, IFCBUILDING)),
             storeys       |-> extract_storeys(ifc_file, order),
             grids         |-> extract_grids(ifc_file, order),
             grid_axes     |-> extract_grid_axes(ifc_file, order),
             grid_lines    |-> <<>>,
             element_count |-> 0 ])

\* .map(|p| p.name.clone()).unwrap_or_else(|| default)
name_or(opt, default) == IF opt = None THEN default ELSE opt[1].name

\* BimModel::get_info
get_info(model) ==
    [ project_name  |-> name_or(model.project, "Unknown Project"),
      building_name |-> name_or(model.building, "Unknown Building"),
      site_name     |-> name_or(model.site, "Unknown Site"),
      stats |-> [ total_entities |-> model.element_count,
                  walls    |-> Len(model.walls),
                  slabs    |-> Len(model.slabs),
                  columns  |-> Len(model.columns),
                  beams    |-> Len(model.beams),
                  doors    |-> Len(model.doors),
                  windows  |-> Len(model.windows),
                  storeys  |-> Len(model.storeys) ] ]

(***************************************************************************)
(* Whole-model specification: from_ifc_file, then get_info, on parsed      *)
(* files of at most MaxFileEntities entities (ids 1, 2, ..) under every    *)
(* iteration order of the entity map.  An entity is of one of the fourteen *)
(* element types, a storey, a project, a grid that names entity 1 as a U   *)
(* axis, a grid axis, or of a type no extract_* asks for.                  *)
(***************************************************************************)
\* most entities in a parsed file
MaxFileEntities == 2

IFCWALLSTANDARDCASE ==
    << "I", "F", "C", "W", "A", "L", "L", "S", "T", "A", "N", "D", "A", "R",
       "D", "C", "A", "S", "E" >>

EntityRefValue(id) == [kind |-> "EntityRef", v |-> id]
ListValue(l) == [kind |-> "List", v |-> l]

\* GlobalId .. Representation, UAxes, VAxes
GridAttributes ==
    CompleteAttributes \o << ListValue(<<EntityRefValue(1)>>), ListValue(<<EntityRefValue(2)>>) >>

\* AxisTag, AxisCurve, SameSense
GridAxisAttributes ==
    << StringValue("X"), NullValue, [kind |-> "Boolean", v |-> TRUE] >>

FileTemplates ==
    [ k \in 1..Len(MeshKinds) |->
        [entity_type |-> KindKeyword[MeshKinds[k]], attributes |-> CompleteAttributes] ]
    \o << [entity_type |-> IFCBUILDINGSTOREY,   attributes |-> CompleteAttributes],
          [entity_type |-> IFCPROJECT,          attributes |-> CompleteAttributes],
          [entity_type |-> IFCGRID,             attributes |-> GridAttributes],
          [entity_type |-> IFCGRIDAXIS,         attributes |-> GridAxisAttributes],
          [entity_type |-> IFCWALLSTANDARDCASE, attributes |-> CompleteAttributes] >>

\* the parsed file of n entities made from the templates chosen
TemplateFile(n, chosen) ==
    [ header   |-> <<>>,
      entities |-> [id \in 1..n |-> EntityOf(id, FileTemplates[chosen[id]])] ]

InitModel ==
    /\ ModelRegistry_new
    /\ op = "new" /\ args = <<>> /\ ret = "()"
    /\ iter = IterIdle /\ ApiIdle
    /\ \E n \in 0..MaxFileEntities :
          \E chosen \in [1..n -> 1..Len(FileTemplates)], order \in IterationOrders(1..n) :
             input = [ifc_file |-> TemplateFile(n, chosen), order |-> order]
    /\ output = None

call_from_ifc_file_in_order ==
    /\ op = "new"
    /\ op' = "from_ifc_file"
    /\ output' = [model |-> from_ifc_file_in_order(input.ifc_file, input.order), info |-> None]
    /\ UNCHANGED <<models, primary_model, next_id, args, ret, iter, input, statics, threads>>

call_get_info ==
    /\ op = "from_ifc_file"
    /\ op' = "get_info"
    /\ output' = [output EXCEPT !.info = Some(get_info(output.model))]
    /\ UNCHANGED <<models, primary_model, next_id, args, ret, iter, input, statics, threads>>

NextModel == call_from_ifc_file_in_order \/ call_get_info

SpecModel == InitModel /\ [][NextModel]_vars

\* the entities of the file of the last call whose type is one of the keywords
EntitiesTyped(keywords) ==
    {id \in DOMAIN input.ifc_file.entities :
        to_uppercase(input.ifc_file.entities[id].entity_type) \in keywords}

ElementKeywords == {KindKeyword[MeshKinds[k]] : k \in 1..Len(MeshKinds)}

\* C21 element_count of an extracted model is the sum of the lengths of its
\* fourteen element vectors, storeys, grids and grid axes left out, and
\* get_info reports it as stats.total_entities
ElementCountIsSumOfVectors ==
    (op \in {"from_ifc_file", "get_info"}) =>
        /\ output.model.element_count
              = Len(output.model.walls) + Len(output.model.slabs) + Len(output.model.columns)
                + Len(output.model.beams) + Len(output.model.doors) + Len(output.model.windows)
                + Len(output.model.roofs) + Len(output.model.stairs) + Len(output.model.footings)
                + Len(output.model.pipes) + Len(output.model.ducts)
                + Len(output.model.flow_terminals) + Len(output.model.cable_carriers)
                + Len(output.model.proxies)
        /\ output.model.element_count = Cardinality(EntitiesTyped(ElementKeywords))
        /\ op = "get_info" =>
              output.info[1].stats.total_entities = output.model.element_count

\* C21 witness: a file of a pipe and a storey: one element is counted and
\* reported
PipeAndStoreyCountedState ==
    /\ op = "get_info"
    /\ Len(output.model.pipes) = 1
    /\ Len(output.model.storeys) = 1
    /\ output.model.element_count = 1
    /\ output.info[1].stats.total_entities = 1

\* a model without an element of any kind
NoGeometry(model) == \A k \in 1..Len(MeshKinds) : model[MeshKinds[k]] = <<>>

\* a line runs from lo to hi along its own direction: x for a U axis, y for
\* a V axis
LineSpans(line, lo, hi) ==
    IF line.is_u_axis
       THEN line.start[1] = Thirds(lo) /\ line.end[1] = Thirds(hi)
       ELSE line.start[2] = Thirds(lo) /\ line.end[2] = Thirds(hi)

\* C22 the grid lines of the axes of a model without geometry span the
\* default extent -20..20 widened by the margin of 5, that is -25..25
AxisLinesSpanDefaultExtent ==
    (op = "from_ifc_file" /\ NoGeometry(output.model) /\ output.model.grid_axes # <<>>) =>
        \A i \in 1..Len(output.model.grid_lines) :
            LineSpans(output.model.grid_lines[i], -25000, 25000)

\* the i-th default line (from 0) of a direction: its tag, its direction and
\* its position min + span * i / 3 along the axis a, in thirds
IsDefaultLine(line, tag, is_u, a, b, i) ==
    /\ line.tag = tag
    /\ line.is_u_axis = is_u
    /\ line.start[a] = 3 * b.min[a] + (b.max[a] - b.min[a]) * i
    /\ line.end[a] = line.start[a]

\* the eight lines of the default grid for the bounds b
IsDefaultGrid(lines, b) ==
    /\ Len(lines) = 8
    /\ IsDefaultLine(lines[1], <<"A">>, FALSE, 1, b, 0)
    /\ IsDefaultLine(lines[2], <<"B">>, FALSE, 1, b, 1)
    /\ IsDefaultLine(lines[3], <<"C">>, FALSE, 1, b, 2)
    /\ IsDefaultLine(lines[4], <<"D">>, FALSE, 1, b, 3)
    /\ IsDefaultLine(lines[5], <<"1">>, TRUE, 2, b, 0)
    /\ IsDefaultLine(lines[6], <<"2">>, TRUE, 2, b, 1)
    /\ IsDefaultLine(lines[7], <<"3">>, TRUE, 2, b, 2)
    /\ IsDefaultLine(lines[8], <<"4">>, TRUE, 2, b, 3)

IsDefaultGridIfBounds(lines, bounds) == bounds # None => IsDefaultGrid(lines, bounds[1])

\* C23 a model extracted from a file without IFCGRIDAXIS entity that has
\* bounds holds exactly the eight lines of the default grid, A..D at
\* x = min_x + span_x*i/3 and 1..4 at y = min_y + span_y*i/3; a model with
\* grid axes holds one line per axis, tagged as the axis, and no other line
GridLinesDefaultOrPerAxis ==
    (op = "from_ifc_file") =>
        /\ EntitiesTyped({IFCGRIDAXIS}) = {} =>
              IsDefaultGridIfBounds(output.model.grid_lines, get_bounds(output.model))
        /\ EntitiesTyped({IFCGRIDAXIS}) # {} =>
              /\ Len(output.model.grid_lines) = Cardinality(EntitiesTyped({IFCGRIDAXIS}))
              /\ Len(output.model.grid_axes) = Len(output.model.grid_lines)
              /\ \A i \in 1..Len(output.model.grid_lines) :
                    output.model.grid_lines[i].tag = output.model.grid_axes[i].axis_tag

\* C23 witness: the default grid of a model of one wall, whose box spans
\* x = -1.25..1.25: line B stands at x = -1.25 + 2.5/3
DefaultGridOfOneWallState ==
    /\ op = "from_ifc_file"
    /\ Len(output.model.walls) = 1 /\ output.model.element_count = 1
    /\ output.model.grid_axes = <<>>
    /\ Len(output.model.grid_lines) = 8
    /\ output.model.grid_lines[2].tag = <<"B">>
    /\ output.model.grid_lines[2].start[1] = 3 * (-1250) + 2500

(***************************************************************************)
(* The global mutexes of api.rs.  An API function is the sequence of its   *)
(* lock() calls and of the early returns between them; the guards it holds *)
(* are dropped when it returns.  lock() blocks while another thread holds  *)
(* the mutex.                                                              *)
(***************************************************************************)
Lock(mutex) == [step |-> "lock", mutex |-> mutex]
ReturnIf(cond, err) == [step |-> "return_if", cond |-> cond, err |-> err]

\* the API functions that hold more than one mutex at a time
LockPrograms ==
    [ load_model_into_renderer |->
          << Lock("MODEL_REGISTRY"), ReturnIf("no_primary", "Err(No model loaded)"),
             Lock("RENDERER"), ReturnIf("no_renderer", "Err(Renderer not initialized)") >>,
      pick_element |->
          << Lock("MODEL_REGISTRY"), ReturnIf("is_empty", "Err(No model loaded)"),
             Lock("RENDERER"), ReturnIf("no_renderer", "Err(Renderer not initialized)") >>,
      reload_model_mesh |->
          << Lock("MODEL_REGISTRY"), ReturnIf("no_primary", "Err(No model loaded)"),
             Lock("VISIBILITY"), Lock("SELECTED_ELEMENT"),
             Lock("RENDERER"), ReturnIf("no_renderer", "Err(Renderer not initialized)") >>,
      color_by_type |->
          << Lock("MODEL_REGISTRY"), ReturnIf("is_empty", "Err(No model loaded)"),
             Lock("RENDERER"), ReturnIf("no_renderer", "Err(Renderer not initialized)") >>,
      get_render_stats |->
          << Lock("RENDERER"), ReturnIf("no_renderer", "Err(Renderer not initialized)"),
             Lock("MODEL_REGISTRY") >>,
      start_measurement |->
          << Lock("MEASUREMENT_POINTS"), Lock("MEASUREMENT_TYPE") >>,
      clear_section_plane |->
          << Lock("SECTION_PLANE"), Lock("RENDERER") >> ]

\* the condition of an early return, on the registry and the renderer
ReturnCondition(cond) ==
    CASE cond = "no_primary"  -> primary_model = None
      [] cond = "is_empty"    -> is_empty
      [] cond = "no_renderer" -> statics.RENDERER = None

\* the mutexes some thread holds
HeldMutexes == UNION {threads[t].held : t \in DOMAIN threads}

\* the step a running thread is at, or nothing when it is past the last one
StepOf(t) ==
    IF threads[t].pc <= Len(LockPrograms[threads[t].call])
       THEN Some(LockPrograms[threads[t].call][threads[t].pc])
       ELSE None

\* a thread enters an API function
thread_call(t, call) ==
    /\ t \notin DOMAIN threads
    /\ threads' = Insert(threads, t, [call |-> call, pc |-> 1, held |-> {}])
    /\ op' = call /\ args' = <<t>> /\ ret' = "running"
    /\ UNCHANGED <<registry, iter, input, output, statics>>

\* MUTEX.lock().unwrap(): taken when no thread holds it
thread_lock(t) ==
    /\ t \in DOMAIN threads
    /\ StepOf(t) # None
    /\ StepOf(t)[1].step = "lock"
    /\ StepOf(t)[1].mutex \notin HeldMutexes
    /\ threads' = [threads EXCEPT ![t].held = @ \cup {StepOf(t)[1].mutex}, ![t].pc = @ + 1]
    /\ UNCHANGED <<registry, op, args, ret, iter, input, output, statics>>

\* an early return drops the guards; otherwise the function goes on
thread_check(t) ==
    /\ t \in DOMAIN threads
    /\ StepOf(t) # None
    /\ StepOf(t)[1].step = "return_if"
    /\ IF ReturnCondition(StepOf(t)[1].cond)
          THEN /\ threads' = Remove(threads, t)
               /\ op' = threads[t].call /\ args' = <<t>> /\ ret' = StepOf(t)[1].err
          ELSE /\ threads' = [threads EXCEPT ![t].pc = @ + 1]
               /\ UNCHANGED <<op, args, ret>>
    /\ UNCHANGED <<registry, iter, input, output, statics>>

\* the function returns Ok and drops its guards
thread_return(t) ==
    /\ t \in DOMAIN threads
    /\ StepOf(t) = None
    /\ threads' = Remove(threads, t)
    /\ op' = threads[t].call /\ args' = <<t>> /\ ret' = "Ok"
    /\ UNCHANGED <<registry, iter, input, output, statics>>

(***************************************************************************)
(* Specification of the locking: MaxThreads threads call the functions of  *)
(* LockPrograms in any interleaving, on an empty registry or one holding a *)
(* model, with or without an initialised renderer.                         *)
(***************************************************************************)
\* the threads calling the API
MaxThreads == 2

ThreadIds == 1..MaxThreads

InitLocks ==
    /\ \/ ModelRegistry_new
       \/ /\ models = Insert(EmptyMap, FormatId(1), RegisteredModel_new(BimModel_new, "Model", None))
          /\ primary_model = Some(FormatId(1))
          /\ next_id = 2
    /\ op = "new" /\ args = <<>> /\ ret = "()"
    /\ iter = IterIdle /\ input = <<>> /\ output = None
    /\ \E r \in {None, Some("Renderer")} : statics = [StaticsNew EXCEPT !.RENDERER = r]
    /\ threads = NoThreads

NextLocks ==
    \E t \in ThreadIds :
       \/ \E call \in DOMAIN LockPrograms : thread_call(t, call)
       \/ thread_lock(t)
       \/ thread_check(t)
       \/ thread_return(t)

SpecLocks == InitLocks /\ [][NextLocks]_vars

\* a thread is at a lock() of a mutex another thread holds
WaitsFor(t, u) ==
    /\ t # u
    /\ StepOf(t) # None
    /\ StepOf(t)[1].step = "lock"
    /\ StepOf(t)[1].mutex \in threads[u].held

\* every thread of the set waits for a thread of the set
Deadlocked(S) == S # {} /\ \A t \in S : \E u \in S : WaitsFor(t, u)

\* C24 no set of threads running API functions is ever deadlocked on the
\* global mutexes
NoDeadlockOnMutexes ==
    \A S \in SUBSET DOMAIN threads : ~Deadlocked(S)

(***************************************************************************)
(* Element type visibility and picking: set_element_type_visible and       *)
(* pick_element on a registry of one visible model.                        *)
(***************************************************************************)
\* pub fn set_element_type_visible(element_type, visible)
set_element_type_visible(element_type, visible) ==
    /\ statics' = [statics EXCEPT !.VISIBILITY = IF visible THEN @ \ {element_type}
                                                            ELSE @ \cup {element_type}]
    /\ op' = "set_element_type_visible"
    /\ args' = <<element_type, visible>>
    /\ ret' = "Ok"
    /\ UNCHANGED <<registry, iter, input, output, threads>>

\* pub fn is_element_type_visible(element_type)
is_element_type_visible(element_type) == element_type \notin statics.VISIBILITY

\* the type names the caller hides and shows
HideableTypes == {"Wall", "Slab"}

InitHidden ==
    /\ \E m \in PickModels :
          models = Insert(EmptyMap, FormatId(1), RegisteredModel_new(m, "Model", None))
    /\ primary_model = Some(FormatId(1))
    /\ next_id = 2
    /\ op = "new" /\ args = <<>> /\ ret = "()"
    /\ iter = IterIdle /\ input = <<>> /\ output = None
    /\ \E r \in {None, Some("Renderer")} : statics = [StaticsNew EXCEPT !.RENDERER = r]
    /\ threads = NoThreads

NextHidden ==
    \/ \E element_type \in HideableTypes, visible \in BOOLEAN :
          set_element_type_visible(element_type, visible)
    \/ \E ray \in PickRays, order \in IterationOrders(iter_visible) :
          pick_element(statics.RENDERER # None, ray, order)

SpecHidden == InitHidden /\ [][NextHidden]_vars

\* C25 pick_element never returns an element of a type hidden with
\* set_element_type_visible(type, false)
PickNeverReturnsHiddenType ==
    (op = "pick_element" /\ ret = "Ok" /\ output # None) =>
        is_element_type_visible(output[1].element_type)

(***************************************************************************)
(* unload_model and is_model_loaded under the API functions (SpecApi).     *)
(***************************************************************************)
\* the step of unload_model on a registry that holds models: Ok, exactly the
\* primary model removed, and a remaining model, if any, primary afterwards
UnloadRemovesPrimary ==
    /\ ret' = "Ok"
    /\ primary_model # None
    /\ primary_model[1] \in DOMAIN models
    /\ models' = Remove(models, primary_model[1])
    /\ DOMAIN models' # {} =>
          /\ primary_model' # None
          /\ primary_model'[1] \in DOMAIN models'
    /\ next_id' = next_id

\* the step of unload_model on an empty registry: Err and no change
UnloadOfNothing ==
    /\ ret' = "Err(No model loaded)"
    /\ UNCHANGED registry

\* C27 unload_model on a non-empty registry removes exactly the primary model
\* and returns Ok, after which a remaining model, if any, is primary; on an
\* empty registry it returns Err("No model loaded") and changes nothing; it
\* never returns Err("No primary model to unload"); is_model_loaded is true
\* exactly when model_count > 0
UnloadModelRemovesPrimary ==
    /\ [](ret # "Err(No primary model to unload)")
    /\ [](is_model_loaded <=> model_count > 0)
    /\ [][ op' = "unload_model" =>
              IF model_count > 0 THEN UnloadRemovesPrimary ELSE UnloadOfNothing ]_vars

\* C27 witness: unload_model removed the primary of several models and one of
\* the remaining models is primary
UnloadedPrimaryOfSeveralState ==
    /\ op = "unload_model"
    /\ ret = "Ok"
    /\ is_model_loaded
    /\ primary_model # None
    /\ primary_model[1] \in DOMAIN models

(***************************************************************************)
(* Measurement state: MEASUREMENT_POINTS and MEASUREMENT_TYPE under        *)
(* start_measurement, add_measurement_point and clear_measurement.         *)
(***************************************************************************)
\* the match of start_measurement: the MeasurementType of a name, None for
\* the names of the `_` arm
MeasurementType_of(measurement_type) ==
    CASE measurement_type = "distance" -> Some("Distance")
      [] measurement_type = "area" -> Some("Area")
      [] measurement_type = "volume" -> Some("Volume")
      [] OTHER -> None

\* pub fn start_measurement(measurement_type): points.clear() runs before
\* the match, whose `_` arm returns before *mtype is assigned
start_measurement(measurement_type) ==
    /\ op' = "start_measurement"
    /\ args' = <<measurement_type>>
    /\ IF MeasurementType_of(measurement_type) = None
          THEN /\ statics' = [statics EXCEPT !.MEASUREMENT_POINTS = <<>>]
               /\ ret' = "Err(Invalid measurement type)"
          ELSE /\ statics' = [statics EXCEPT !.MEASUREMENT_POINTS = <<>>,
                                             !.MEASUREMENT_TYPE =
                                                 MeasurementType_of(measurement_type)]
               /\ ret' = "Ok"
    /\ UNCHANGED <<registry, iter, input, output, threads>>

\* most points collected in one measurement
MaxPoints == 4

\* pub fn add_measurement_point(x, y, z): returns the number of points
add_measurement_point(x, y, z) ==
    /\ Len(statics.MEASUREMENT_POINTS) < MaxPoints
    /\ op' = "add_measurement_point"
    /\ args' = <<x, y, z>>
    /\ statics' = [statics EXCEPT !.MEASUREMENT_POINTS = Append(@, <<x, y, z>>)]
    /\ ret' = Len(statics'.MEASUREMENT_POINTS)
    /\ UNCHANGED <<registry, iter, input, output, threads>>

\* pub fn clear_measurement()
clear_measurement ==
    /\ op' = "clear_measurement"
    /\ args' = <<>>
    /\ statics' = [statics EXCEPT !.MEASUREMENT_POINTS = <<>>, !.MEASUREMENT_TYPE = None]
    /\ ret' = "()"
    /\ UNCHANGED <<registry, iter, input, output, threads>>

\* the names start_measurement is called with: the three of the match, a
\* name of another measurement and the empty name
MeasurementNames == {"distance", "area", "volume", "angle", ""}

\* the points add_measurement_point is called with, in thousandths
MeasurementCoordinates == {<<0, 0, 0>>, <<1000, 2000, 0>>}

InitMeasure ==
    /\ ModelRegistry_new
    /\ op = "new" /\ args = <<>> /\ ret = "()"
    /\ iter = IterIdle /\ ApiIdle
    /\ input = <<>>
    /\ output = None

NextMeasure ==
    \/ \E measurement_type \in MeasurementNames : start_measurement(measurement_type)
    \/ \E p \in MeasurementCoordinates : add_measurement_point(p[1], p[2], p[3])
    \/ clear_measurement

SpecMeasure == InitMeasure /\ [][NextMeasure]_vars

\* C28 start_measurement with an unrecognized measurement type returns Err
\* and leaves the collected points and the selected measurement type as they
\* were before the call
InvalidTypeLeavesMeasurement ==
    [][ (op' = "start_measurement" /\ MeasurementType_of(args'[1]) = None) =>
            /\ ret' = "Err(Invalid measurement type)"
            /\ statics'.MEASUREMENT_POINTS = statics.MEASUREMENT_POINTS
            /\ statics'.MEASUREMENT_TYPE = statics.MEASUREMENT_TYPE ]_vars

(***************************************************************************)
(* Ids generated over the lifetime of a registry: the registry operations  *)
(* that add and remove models, with the ids returned by add_model kept in  *)
(* the order of the calls.                                                 *)
(***************************************************************************)
\* the ids returned by add_model so far
returned_ids == output

\* add_model, its returned id appended to the ids returned so far
add_model_returning ==
    /\ \E a \in AddInputs :
          /\ \E r \in Ids : ModelRegistry_add_model(a.model, a.name, a.file_path, r) /\ ret' = r
          /\ args' = <<a.model, a.name, a.file_path>>
    /\ op' = "add_model"
    /\ output' = Append(returned_ids, ret')
    /\ UNCHANGED <<iter, input, statics, threads>>

InitIds ==
    /\ ModelRegistry_new
    /\ op = "new" /\ args = <<>> /\ ret = "()"
    /\ iter = IterIdle /\ ApiIdle
    /\ input = <<>>
    /\ output = <<>>

NextIds ==
    \/ add_model_returning
    \/ add_model_with_id
    \/ remove_model
    \/ set_primary_model
    \/ clear

SpecIds == InitIds /\ [][NextIds]_vars

\* C29 the ids returned by add_model are pairwise distinct over the whole
\* lifetime of a registry, also after a removal or a clear, and the counter
\* is past every one of them
ReturnedIdsAreDistinct ==
    /\ \A i, j \in DOMAIN returned_ids : i # j => returned_ids[i] # returned_ids[j]
    /\ \A i \in DOMAIN returned_ids : \E n \in 1..(next_id - 1) : returned_ids[i] = FormatId(n)

\* C29 witness: add_model returned a second id after the model of the first
\* had left the registry, by remove_model or by clear
AddedAgainAfterEmptyingState ==
    /\ op = "add_model"
    /\ Len(returned_ids) = 2
    /\ model_count = 1
    /\ DOMAIN models = {returned_ids[2]}
    /\ returned_ids[1] # returned_ids[2]

(***************************************************************************)
(* The cached bounds under the registry operations and the loading API     *)
(* functions, with get_combined_bounds called in between.                  *)
(***************************************************************************)
\* the loop of get_combined_bounds over the entries in the order given
RECURSIVE combined_bounds_over(_, _)
combined_bounds_over(order, combined) ==
    IF order = <<>>
       THEN combined
       ELSE combined_bounds_over(Tail(order),
                                 combined_bounds_step(combined, models[Head(order)]))

\* pub fn get_combined_bounds(&self), whole, for any order of models.values()
get_combined_bounds ==
    /\ \E order \in IterationOrders(DOMAIN models) :
          output' = combined_bounds_over(order, None)
    /\ op' = "get_combined_bounds"
    /\ args' = <<>>
    /\ UNCHANGED <<registry, ret, iter, input, statics, threads>>

InitCached == Init

\* what reading the file of load_model gives: the complete file or a failure
CachedReads == ApiGoodFiles \cup {ReadFailed}

NextCached ==
    \/ Next
    \/ \E id \in ApiIds, p \in Paths, rd \in CachedReads : load_model(id, p, rd)
    \/ get_combined_bounds

SpecCached == InitCached /\ [][NextCached]_vars

\* C30 the cached bounds of every registered model are None from insertion
\* on, under add_model, add_model_with_id, set_model_visible,
\* set_model_transform, set_primary_model, remove_model, clear and load_model,
\* and get_combined_bounds returns None in every reachable state
CachedBoundsStayNone ==
    /\ \A id \in DOMAIN models : models[id].bounds = None
    /\ op = "get_combined_bounds" => output = None

\* C30 witness: get_combined_bounds returned None for a registry of several
\* visible models
NoBoundsOfVisibleModelsState ==
    /\ op = "get_combined_bounds"
    /\ output = None
    /\ Cardinality(iter_visible) >= 2
====
